---- MODULE Spec2Model ----
(***************************************************************************)
(* Model of the in-memory tree model of grovedbg (src/src/model.rs):       *)
(* a Subtree keeps the fetched nodes of one GroveDB subtree together with  *)
(* the bookkeeping sets cluster_roots and waitlist; Tree maps paths to     *)
(* Subtrees.                                                               *)
(***************************************************************************)
EXTENDS Integers, FiniteSets, Sequences, TLC

\* Number of distinct node keys the calls draw from.
NumKeys == 3
\* Longest sequence of calls made on one Tree.
MaxCalls == 5
\* Number of distinct byte strings a path segment is drawn from.
NumBytes == 2
\* Largest number of segments a PathCtx allocates.
MaxSegments == 4
\* Number of distinct node values a proof op pushes.
NumValues == 2
\* Longest op sequence of one merk proof.
MaxOps == 4
\* Number of distinct keys, longest path and longest sequence of calls when
\* the calls address subtrees at any path.
NumTreeKeys == 2
MaxDepth == 2
MaxTreeCalls == 3
MaxLayers == 2
MaxLayerOps == 3
NumData == 2
MaxSessions == 2
MaxClicks == 2
MaxRootOps == 5
MaxLowerOps == 3
MaxRefPath == 2
MaxRefN == 3
MaxMessages == 2
MaxBranch == 2
MaxAddPath == 3
MaxShapeOps == 5
MaxFetches == 11
MaxExpiries == 1
MaxIssued == 2
CommandsCapacity == 1
UpdatesCapacity == 1
Keys == 1..NumKeys
\* Option::None for an Option<Key>.
None == 0
OptKey == Keys \cup {None}

\* The root path (PathCtx::get_root): the empty sequence of segments.
RootPath == << >>

\* Element (model.rs 790-826) as far as the Tree looks at it: Item stands for
\* Item, SumItem and Reference, which Tree::insert treats alike; root_key is
\* the Option<Key> of a Subtree or Sumtree link.
Item == [kind |-> "Item", root_key |-> None]
SubtreePlaceholder == [kind |-> "SubtreePlaceholder", root_key |-> None]
SubtreeLinks == [kind : {"Subtree", "Sumtree"}, root_key : OptKey]

\* Node (model.rs 724-732): only the fields the model reads; the nodes whose
\* element is no subtree link.
Node == [left_child : OptKey, right_child : OptKey, element : {Item}]

\* BTreeMap<Key, Node> with no entries.
EmptyNodes == [k \in {} |-> None]

\* Subtree::default() (model.rs 223-243).
Subtree_default ==
    [root_node |-> None, cluster_roots |-> {}, nodes |-> EmptyNodes, waitlist |-> {}]

\* Tree.subtrees: BTreeMap<Path, Subtree>; Tree::new leaves it empty.
VARIABLES subtrees, run

\* path_ctx: the PathCtx (path_display.rs 15-18); handles: the Path handles
\* returned so far, each with the byte sequence it was built from.
VARIABLES path_ctx, handles

\* proof: one run of ProofSubtree::from_iter (proof_tree.rs 251-318): the op
\* sequence given (input), the ops not yet consumed (iter), the locals stack
\* and tree, and the result once it returned.
VARIABLES proof

\* protocol: the background task of start_grovedbg_protocol (protocol.rs
\* 16-52) with the three channels it works on: commands (the application's
\* ProtocolSender), feedback (its own feedback channel), updates (the
\* updates_sender towards the application); sessions counts the sessions the
\* backend has handed out, last is the last line the loop logged.
\* app: the fields of GroveDbgApp (lib.rs 88-108) and of its CommandBus and
\* TreeData that the updates touch.
VARIABLES protocol, app

\* cross: one run of ProofTree::fetch_additional_data (proof_tree.rs 70-228)
\* inside the ProvePathQuery arm of process_command: the ProofTree being
\* cross-referenced (layers, with the node_update of every proof node), the
\* paths still to walk, the locals of fetch_subtree at its current await
\* (path, queue, idx, update, pc), the Result once it returned, and the node
\* updates of the Proof update built from it (delivered).
VARIABLES cross

\* refs: one reference element being resolved: the node's path and key and
\* the reference (input), and what the two resolvers of the repository have
\* returned for it: TryFrom<ElementCtx> for Element (proto_conversion.rs
\* 19-239) in conv, get_absolute_path_key (reference_view.rs 225-327) in
\* view.
VARIABLES refs

\* fetch: the fetch task of process_messages (fetch.rs 47-194) working on the
\* Tree in subtrees behind its Mutex: who holds the lock, the message being
\* handled and where process_message stands in it (pc), its locals (root_node,
\* queue, to_insert), the Result it returned (outcome), and the Tree the
\* drawing thread saw when it last took the lock (drawn). before is the Tree
\* when the message was received, fetched the nodes one FetchBranch has
\* converted, handled the number of messages received.
VARIABLES fetch

\* task: the protocol task of start_grovedbg_protocol (protocol.rs 15-55) with
\* its channels and the two ends it talks to: where the loop stands (pc), the
\* command it took (cmd), the commands channel, the feedback channel, the
\* updates channel, the sessions the GroveDB endpoint accepts (valid) and how
\* many it has issued, the session of the CommandBus (session), where the
\* application thread stands (app_pc), and how many fetch commands the user
\* has caused (fetches) and how often the endpoint forgot its sessions
\* (expiries).
VARIABLES task

vars == <<subtrees, run, path_ctx, handles, proof, protocol, app, cross, refs, fetch, task>>

\* Option<usize>::None for the left and right of a ProofNode; indices count
\* from 0 as in the Vec.
NoIndex == -1

\* No from_iter call in progress.
NoProof ==
    [input |-> << >>, iter |-> << >>, stack |-> << >>, tree |-> << >>,
     result |-> "none", root |-> NoIndex]

ProofIdle == proof = NoProof

\* Option<SessionId>::None, and the Option<ProofViewer>::None of a viewer
\* that was never given a proof (a Proof has at least its root layer).
NoSession == 0
NoProofViewer == << >>

\* The protocol task not started and the application not constructed.
NoProtocol ==
    [commands |-> << >>, feedback |-> << >>, updates |-> << >>,
     sessions |-> 0, last |-> [command |-> "none", outcome |-> "none"]]

NoApp ==
    [session |-> NoSession, proof_viewer |-> NoProofViewer,
     show_proof_viewer |-> FALSE, proof_data |-> << >>,
     tree_data |-> << >>, clicks |-> 0]

ProtocolIdle == protocol = NoProtocol /\ app = NoApp

\* Option<NodeUpdate>::None; a NodeUpdate has a key.
NoUpdate == [key |-> None, left_child |-> None, right_child |-> None, root_key |-> None]

\* No ProvePathQuery being cross-referenced.
NoCross ==
    [layers |-> << >>, node_update |-> << >>, paths |-> << >>, path |-> 0,
     queue |-> << >>, idx |-> NoIndex, update |-> NoUpdate, pc |-> "idle",
     result |-> "none", error |-> "none", delivered |-> << >>]

CrossIdle == cross = NoCross

\* A Result not yet returned, and no reference being resolved.
NoResult == [result |-> "none", path |-> << >>, key |-> None]

NoRefs ==
    [kind |-> "none", path |-> << >>, key |-> None, n |-> 0,
     path_append |-> << >>, swap_parent |-> None,
     conv |-> NoResult, view |-> NoResult]

RefsIdle == refs = NoRefs

\* No message and no node update received.
NoMessage == [kind |-> "none", key |-> None]
NoNodeUpdate ==
    [key |-> None, left_child |-> None, right_child |-> None,
     element |-> [kind |-> "none", root_key |-> None]]

\* The fetch task waiting on an empty channel, the Mutex free.
NoFetch ==
    [lock |-> "free", pc |-> "idle", message |-> NoMessage,
     root_node |-> NoNodeUpdate, queue |-> << >>, to_insert |-> << >>,
     outcome |-> "none", before |-> << >>, fetched |-> << >>, drawn |-> << >>,
     handled |-> 0]

FetchIdle == fetch = NoFetch

\* No command taken by the loop.
NoCommand == [kind |-> "none", session |-> NoSession]

\* The protocol task not started.
NoTask ==
    [pc |-> "idle", cmd |-> NoCommand, commands |-> << >>, feedback |-> << >>,
     updates |-> << >>, valid |-> {}, issued |-> 0, session |-> NoSession,
     app_pc |-> "idle", fetches |-> 0, expiries |-> 0]

TaskIdle == task = NoTask

\* The components declared after the protocol task are idle.
RestIdle == CrossIdle /\ RefsIdle /\ FetchIdle /\ TaskIdle

\* PathCtx::new (path_display.rs 27-32).
PathCtx_new == [slab |-> << >>, root_children_slab_ids |-> << >>]

\* PathCtx::get_root (path_display.rs 34-39), as the first handle held.
RootHandle == [head_slab_id |-> None, bytes |-> << >>, reused |-> FALSE]

\* A new PathCtx of which only the root handle was taken.
PathsInit ==
    /\ path_ctx = PathCtx_new
    /\ handles = {RootHandle}

\* The state outside the Tree, which the calls on a Tree leave alone.
OutsideTree == <<path_ctx, handles, proof, protocol, app, cross, refs, fetch, task>>
OutsideTreeInit == PathsInit /\ ProofIdle /\ ProtocolIdle /\ RestIdle

\* The keys an Option<Key> iterates over (Option::iter).
OptIter(o) == IF o = None THEN {} ELSE {o}

\* BTreeMap::remove on the nodes map.
MapRemove(m, key) == [k \in DOMAIN m \ {key} |-> m[k]]

\* BTreeMap::insert on the nodes map (overwrites).
MapInsert(m, key, node) ==
    [k \in DOMAIN m \cup {key} |-> IF k = key THEN node ELSE m[k]]

\* set_root without `self.cluster_roots.remove(&root_node)` (line 401).
Subtree_set_root_keeps_cluster(s, root_key) == [s EXCEPT !.root_node = root_key]

\* Subtree::set_root (model.rs 400-404).
Subtree_set_root(s, root_key) ==
    [s EXCEPT !.cluster_roots = @ \ {root_key}, !.root_node = root_key]

\* Subtree::remove without the `!self.cluster_roots.contains(key)` test of
\* line 445: a removed cluster root is awaited as well.
Subtree_remove_unchecked(s, key) ==
    IF key \notin DOMAIN s.nodes THEN s
    ELSE
        LET node == s.nodes[key]
            nodes1 == MapRemove(s.nodes, key)
            waitlist1 == (s.waitlist \ OptIter(node.left_child)) \ OptIter(node.right_child)
            cluster1 == s.cluster_roots
                           \cup (OptIter(node.left_child) \cap DOMAIN nodes1)
                           \cup (OptIter(node.right_child) \cap DOMAIN nodes1)
            waitlist2 == IF s.root_node # key THEN waitlist1 \cup {key} ELSE waitlist1
        IN  [root_node |-> s.root_node, cluster_roots |-> cluster1,
             nodes |-> nodes1, waitlist |-> waitlist2]

\* Subtree::remove without lines 426-436: the children of the removed node
\* are not made cluster roots.
Subtree_remove_orphans_lost(s, key) ==
    IF key \notin DOMAIN s.nodes THEN s
    ELSE
        LET node == s.nodes[key]
            nodes1 == MapRemove(s.nodes, key)
            waitlist1 == (s.waitlist \ OptIter(node.left_child)) \ OptIter(node.right_child)
            waitlist2 == IF s.root_node # key /\ key \notin s.cluster_roots
                         THEN waitlist1 \cup {key}
                         ELSE waitlist1
        IN  [root_node |-> s.root_node, cluster_roots |-> s.cluster_roots,
             nodes |-> nodes1, waitlist |-> waitlist2]

\* Subtree::remove (model.rs 415-450).
Subtree_remove(s, key) ==
    IF key \notin DOMAIN s.nodes THEN s
    ELSE
        LET node == s.nodes[key]
            nodes1 == MapRemove(s.nodes, key)
            \* 418-423: nobody waits for the children any more
            waitlist1 == (s.waitlist \ OptIter(node.left_child)) \ OptIter(node.right_child)
            \* 426-436: children that are present become cluster roots
            cluster1 == s.cluster_roots
                           \cup (OptIter(node.left_child) \cap DOMAIN nodes1)
                           \cup (OptIter(node.right_child) \cap DOMAIN nodes1)
            \* 440-448: not the root and not a cluster root => awaited
            waitlist2 == IF s.root_node # key /\ key \notin cluster1
                         THEN waitlist1 \cup {key}
                         ELSE waitlist1
        IN  [root_node |-> s.root_node, cluster_roots |-> cluster1,
             nodes |-> nodes1, waitlist |-> waitlist2]

\* child_updates without `self.cluster_roots.remove(child_key)` (line 487).
child_updates_keeps_cluster(s, child_key) ==
    [s EXCEPT !.waitlist = IF child_key \notin DOMAIN s.nodes
                           THEN @ \cup {child_key} ELSE @]

\* The child_updates closure of Subtree::insert (model.rs 483-488).
child_updates(s, child_key) ==
    [s EXCEPT !.waitlist = IF child_key \notin DOMAIN s.nodes
                           THEN @ \cup {child_key} ELSE @,
              !.cluster_roots = @ \ {child_key}]

\* Subtree::insert without the `self.remove(&key)` of line 455: the edges of
\* the node stored before are not undone.
Subtree_insert_no_undo(s, key, node) ==
    LET wasWaited == key \in s.waitlist
        s2 == [s EXCEPT !.waitlist = @ \ {key},
                        !.cluster_roots = IF ~wasWaited /\ s.root_node # key
                                          THEN @ \cup {key} ELSE @]
        s3 == IF node.left_child # None THEN child_updates(s2, node.left_child) ELSE s2
        s4 == IF node.right_child # None THEN child_updates(s3, node.right_child) ELSE s3
    IN  [s4 EXCEPT !.nodes = MapInsert(@, key, node)]

\* Subtree::insert (model.rs 454-500).
Subtree_insert(s, key, node) ==
    LET s1 == Subtree_remove(s, key)
        \* 468-479: HashSet::remove returns whether the key was awaited
        wasWaited == key \in s1.waitlist
        s2 == [s1 EXCEPT !.waitlist = @ \ {key},
                         !.cluster_roots = IF ~wasWaited /\ s1.root_node # key
                                           THEN @ \cup {key} ELSE @]
        s3 == IF node.left_child # None THEN child_updates(s2, node.left_child) ELSE s2
        s4 == IF node.right_child # None THEN child_updates(s3, node.right_child) ELSE s3
    IN  [s4 EXCEPT !.nodes = MapInsert(@, key, node)]

\* BTreeMap::entry(path).or_default() on Tree.subtrees.
EntryOrDefault(t, path) ==
    IF path \in DOMAIN t THEN t
    ELSE [p \in DOMAIN t \cup {path} |-> IF p = path THEN Subtree_default ELSE t[p]]

\* Tree::set_root (model.rs 93-99).
Tree_set_root(t, root_key) ==
    LET t1 == EntryOrDefault(t, RootPath)
    IN  [t1 EXCEPT ![RootPath] = Subtree_set_root(@, root_key)]

\* Node::new_subtree_placeholder (model.rs 769-774).
Node_new_subtree_placeholder ==
    [left_child |-> None, right_child |-> None, element |-> SubtreePlaceholder]

\* insert_not_exists that inserts over a node already there.
Subtree_insert_overwrites(s, key, node) == Subtree_insert(s, key, node)

\* Subtree::insert_not_exists (model.rs 502-506).
Subtree_insert_not_exists(s, key, node) ==
    IF key \notin DOMAIN s.nodes THEN Subtree_insert(s, key, node) ELSE s

\* A Path as the sequence of its segments' bytes, root first (Path::to_vec);
\* handles of one PathCtx are equal exactly when these sequences are.
\* Path::parent_with_key (path_display.rs 153-166) of a path that is not the
\* root.
Path_parent(path) == SubSeq(path, 1, Len(path) - 1)
Path_key(path) == path[Len(path)]

\* The while loop of populate_subtrees_chain (model.rs 192-197), current
\* being the path whose parent is visited next.
RECURSIVE PopulateParents(_, _)
PopulateParents(t, current) ==
    IF current = RootPath THEN t
    ELSE LET parent == Path_parent(current)
             t1 == EntryOrDefault(t, parent)
             t2 == [t1 EXCEPT ![parent] =
                        Subtree_insert_not_exists(@, Path_key(current),
                                                  Node_new_subtree_placeholder)]
         IN  PopulateParents(t2, parent)

\* Tree::populate_subtrees_chain (model.rs 190-198).
populate_subtrees_chain(t, path) == PopulateParents(EntryOrDefault(t, path), path)

\* Tree::insert that makes the child subtree's entry only for a link with a
\* root_key.
Tree_insert_entry_if_rooted(t, path, key, node) ==
    LET t1 == populate_subtrees_chain(t, path)
        child_path == Append(path, key)
        t2 == IF node.element.kind \in {"Sumtree", "Subtree"} /\ node.element.root_key # None
              THEN [EntryOrDefault(t1, child_path) EXCEPT
                        ![child_path] = Subtree_set_root(@, node.element.root_key)]
              ELSE t1
    IN  [t2 EXCEPT ![path] = Subtree_insert(@, key, node)]

\* Tree::insert (model.rs 135-169); the display variants guessed in 136-149
\* are left out.
Tree_insert(t, path, key, node) ==
    LET t1 == populate_subtrees_chain(t, path)
        child_path == Append(path, key)
        t2 == IF node.element.kind \in {"Sumtree", "Subtree"}
              THEN LET t1a == EntryOrDefault(t1, child_path)
                   IN  IF node.element.root_key # None
                       THEN [t1a EXCEPT ![child_path] =
                                 Subtree_set_root(@, node.element.root_key)]
                       ELSE t1a
              ELSE t1
    IN  [t2 EXCEPT ![path] = Subtree_insert(@, key, node)]

\* Tree::remove (model.rs 171-175).
Tree_remove(t, path, key) ==
    IF path \in DOMAIN t THEN [t EXCEPT ![path] = Subtree_remove(@, key)] ELSE t

\* clear_subtree that resets the whole Subtree.
Tree_clear_subtree_reset(t, path) ==
    IF path \in DOMAIN t THEN [t EXCEPT ![path] = Subtree_default] ELSE t

\* Tree::clear_subtree (model.rs 181-185).
Tree_clear_subtree(t, path) ==
    IF path \in DOMAIN t THEN [t EXCEPT ![path].nodes = EmptyNodes] ELSE t

\* Subtree::new_root (model.rs 270-275).
Subtree_new_root(root_node) == [Subtree_default EXCEPT !.root_node = root_node]

\* What the caller knows besides the tree: pending, the node updates of a
\* batch still to be applied (fetch.rs 146-149); removed, the key when the
\* last call was a remove that found its node; calls, the number of calls made.
NoRun == [pending |-> EmptyNodes, removed |-> None, calls |-> 0]

----------------------------------------------------------------------------
\* Spec: any sequence of at most MaxCalls Tree::set_root, Tree::insert,
\* Tree::remove and Tree::clear_subtree calls on the root subtree of a new Tree.

Init ==
    /\ subtrees = [p \in {} |-> Subtree_default]
    /\ run = NoRun
    /\ OutsideTreeInit

SetRoot(k) ==
    /\ run.calls < MaxCalls
    /\ subtrees' = Tree_set_root(subtrees, k)
    /\ run' = [run EXCEPT !.removed = None, !.calls = @ + 1]
    /\ UNCHANGED OutsideTree

Insert(k, node) ==
    /\ run.calls < MaxCalls
    /\ subtrees' = Tree_insert(subtrees, RootPath, k, node)
    /\ run' = [run EXCEPT !.removed = None, !.calls = @ + 1]
    /\ UNCHANGED OutsideTree

Remove(k) ==
    /\ run.calls < MaxCalls
    /\ subtrees' = Tree_remove(subtrees, RootPath, k)
    /\ run' = [run EXCEPT
                  !.removed = IF /\ RootPath \in DOMAIN subtrees
                                 /\ k \in DOMAIN subtrees[RootPath].nodes
                              THEN k ELSE None,
                  !.calls = @ + 1]
    /\ UNCHANGED OutsideTree

ClearSubtree ==
    /\ run.calls < MaxCalls
    /\ subtrees' = Tree_clear_subtree(subtrees, RootPath)
    /\ run' = [run EXCEPT !.removed = None, !.calls = @ + 1]
    /\ UNCHANGED OutsideTree

Next ==
    \/ \E k \in Keys : SetRoot(k)
    \/ \E k \in Keys, node \in Node : Insert(k, node)
    \/ \E k \in Keys : Remove(k)
    \/ ClearSubtree

Spec == Init /\ [][Next]_vars

\* SpecNoClear: any sequence of set_root, insert and remove calls.
NextNoClear ==
    \/ \E k \in Keys : SetRoot(k)
    \/ \E k \in Keys, node \in Node : Insert(k, node)
    \/ \E k \in Keys : Remove(k)

SpecNoClear == Init /\ [][NextNoClear]_vars

\* SpecInserts: a Subtree built by Subtree::new() or Subtree::new_root(r) and a
\* sequence of inserts (the tests' sample_tree, model.rs 832-872).
InitInserts ==
    /\ \E r \in OptKey : subtrees = [p \in {RootPath} |-> Subtree_new_root(r)]
    /\ run = NoRun
    /\ OutsideTreeInit

NextInserts == \E k \in Keys, node \in Node : Insert(k, node)

SpecInserts == InitInserts /\ [][NextInserts]_vars

\* SpecOrder: a batch of nodes with pairwise distinct keys is inserted into an
\* empty Subtree with a fixed root_node, one node at a time, in any order
\* (the for_each over to_insert, fetch.rs 146-149).
Batches == UNION {[ks -> Node] : ks \in SUBSET Keys}

InitOrder ==
    /\ \E r \in OptKey : subtrees = [p \in {RootPath} |-> Subtree_new_root(r)]
    /\ \E batch \in Batches : run = [NoRun EXCEPT !.pending = batch]
    /\ OutsideTreeInit

InsertPending(k) ==
    /\ k \in DOMAIN run.pending
    /\ subtrees' = Tree_insert(subtrees, RootPath, k, run.pending[k])
    /\ run' = [run EXCEPT !.pending = MapRemove(@, k), !.calls = @ + 1]
    /\ UNCHANGED OutsideTree

NextOrder == \E k \in Keys : InsertPending(k)

SpecOrder == InitOrder /\ [][NextOrder]_vars

----------------------------------------------------------------------------
\* The subtree the calls address, when it exists.
Exists == RootPath \in DOMAIN subtrees
Sub == subtrees[RootPath]

\* The keys a node names as its children.
Children(node) == OptIter(node.left_child) \cup OptIter(node.right_child)

\* The keys some node of s names as left_child or right_child.
Referenced(s) == UNION {Children(s.nodes[k]) : k \in DOMAIN s.nodes}

\* The three collections a claim compares.
SameBookkeeping(a, b) ==
    /\ a.nodes = b.nodes
    /\ a.cluster_roots = b.cluster_roots
    /\ a.waitlist = b.waitlist

----------------------------------------------------------------------------
\* C1: in every reachable state of a Subtree, cluster_roots and waitlist have
\* no key in common.
ClusterRootsWaitlistDisjoint ==
    Exists => Sub.cluster_roots \cap Sub.waitlist = {}

\* A cluster root was just removed while another key is awaited: the removed
\* key stays in cluster_roots and is kept out of waitlist.
ClusterRootRemoved ==
    /\ Exists
    /\ run.removed \in Sub.cluster_roots
    /\ Sub.waitlist # {}

\* C2: in every reachable state of a Subtree, no key of waitlist is a key of
\* nodes.
WaitlistNotInNodes ==
    Exists => Sub.waitlist \cap DOMAIN Sub.nodes = {}

\* C3: in any reachable state, inserting the same (key, node) a second time
\* right after the first leaves nodes, cluster_roots and waitlist as they were
\* after the first insert.
InsertIdempotent ==
    \A k \in Keys, node \in Node :
        LET once == Tree_insert(subtrees, RootPath, k, node)
            twice == Tree_insert(once, RootPath, k, node)
        IN  SameBookkeeping(twice[RootPath], once[RootPath])

\* C4: in a Subtree built by inserts, remove(key) of a present key followed by
\* insert(key, the same node) restores nodes, cluster_roots and waitlist.
RemoveReinsertRoundTrip ==
    \A k \in DOMAIN Sub.nodes :
        LET removed == Tree_remove(subtrees, RootPath, k)
            back == Tree_insert(removed, RootPath, k, Sub.nodes[k])
        IN  SameBookkeeping(back[RootPath], Sub)

\* Min of a non-empty set of keys.
MinKey(ks) == CHOOSE k \in ks : \A j \in ks : k <= j

\* The nodes of a map inserted into s one after the other in ascending key
\* order.
RECURSIVE InsertAscending(_, _, _)
InsertAscending(s, nodes, ks) ==
    IF ks = {} THEN s
    ELSE LET k == MinKey(ks)
         IN  InsertAscending(Subtree_insert(s, k, nodes[k]), nodes, ks \ {k})

\* The keys reachable from the keys of set along the child links of s.
RECURSIVE ReachFrom(_, _)
ReachFrom(s, set) ==
    LET next == set \cup UNION {Children(s.nodes[k]) : k \in set \cap DOMAIN s.nodes}
    IN  IF next = set THEN set ELSE ReachFrom(s, next)

\* The (node, side) slots of s that name key.
Referrers(s, key) ==
    {<<k, side>> \in (DOMAIN s.nodes) \X {"left", "right"} :
        key = (IF side = "left" THEN s.nodes[k].left_child ELSE s.nodes[k].right_child)}

\* The nodes of s form a complete tree under root_node: the root is known and
\* nobody's child, every other node is the child of exactly one node and
\* reachable from the root, and every referenced child is known.
IsCompleteTree(s) ==
    /\ s.root_node \in DOMAIN s.nodes
    /\ Referenced(s) \subseteq DOMAIN s.nodes
    /\ Referrers(s, s.root_node) = {}
    /\ \A k \in DOMAIN s.nodes \ {s.root_node} : Cardinality(Referrers(s, k)) = 1
    /\ ReachFrom(s, {s.root_node}) = DOMAIN s.nodes

\* C5: inserting nodes with pairwise distinct keys into an empty Subtree with
\* a fixed root_node gives the same nodes, waitlist and cluster_roots in every
\* order (the same as in ascending key order), and a complete tree under
\* root_node ends with waitlist and cluster_roots empty.
ArrivalOrderIrrelevant ==
    /\ SameBookkeeping(Sub, InsertAscending(Subtree_new_root(Sub.root_node),
                                            Sub.nodes, DOMAIN Sub.nodes))
    /\ (run.pending = EmptyNodes /\ IsCompleteTree(Sub))
          => (Sub.waitlist = {} /\ Sub.cluster_roots = {})

\* A whole batch has arrived and it is a complete tree whose root has both
\* children.
CompleteTreeArrived ==
    /\ run.pending = EmptyNodes
    /\ IsCompleteTree(Sub)
    /\ Sub.nodes[Sub.root_node].left_child # None
    /\ Sub.nodes[Sub.root_node].right_child # None
    /\ Sub.nodes[Sub.root_node].left_child # Sub.nodes[Sub.root_node].right_child

\* C6: in every state reachable by insert, remove and set_root, no key in
\* cluster_roots is the left_child or right_child of a node in nodes.
ClusterRootsUnreferenced ==
    Exists => Sub.cluster_roots \cap Referenced(Sub) = {}

\* C7: in every reachable state every key in cluster_roots is a key of nodes
\* (iter_cluster_roots finds a node for each cluster root).
ClusterRootsInNodes ==
    Exists => Sub.cluster_roots \subseteq DOMAIN Sub.nodes

\* C8: in every reachable state waitlist is exactly the set of keys named as a
\* child by some node in nodes and not themselves in nodes.
WaitlistExact ==
    Exists => Sub.waitlist = Referenced(Sub) \ DOMAIN Sub.nodes

\* C9: in every state reachable by set_root, insert and remove, the key stored
\* in root_node (when set) is not in cluster_roots.
RootNotClusterRoot ==
    (Exists /\ Sub.root_node # None) => Sub.root_node \notin Sub.cluster_roots

\* The contract of remove(key) between the tree t before and u after the
\* call; unawaited(ch, key) are the children that must not be awaited afterwards.
RemoveContract(t, u, key, unawaited(_, _)) ==
    IF RootPath \notin DOMAIN t \/ key \notin DOMAIN t[RootPath].nodes
    THEN u = t
    ELSE LET before == t[RootPath]
             after == u[RootPath]
             ch == Children(before.nodes[key])
             orphans == ch \cap DOMAIN after.nodes
         IN  /\ DOMAIN u = DOMAIN t
             /\ key \notin DOMAIN after.nodes
             /\ unawaited(ch, key) \cap after.waitlist = {}
             /\ orphans \subseteq after.cluster_roots
             /\ (key \in after.waitlist)
                   <=> (before.root_node # key /\ key \notin before.cluster_roots)
             /\ after.nodes = MapRemove(before.nodes, key)
             /\ after.waitlist \ (ch \cup {key}) = before.waitlist \ (ch \cup {key})
             /\ after.cluster_roots \ orphans = before.cluster_roots \ orphans

AllChildren(ch, key) == ch
OtherChildren(ch, key) == ch \ {key}

\* C10 as stated: in any reachable state, remove(key) of an absent key (or without a subtree) changes
\* nothing; otherwise key leaves nodes, neither of its children is in
\* waitlist, its children that are in nodes are cluster roots, key is in
\* waitlist exactly when it is not root_node and was not a cluster root, and
\* nothing else changes.
RemoveContractAsStated ==
    \A k \in Keys :
        RemoveContract(subtrees, Tree_remove(subtrees, RootPath, k), k, AllChildren)

\* C10 (amended): the same contract, where the children that are not in
\* waitlist afterwards are the children other than key itself; it holds for
\* remove(key) called in any reachable state.
RemoveContractHolds ==
    \A k \in Keys :
        RemoveContract(subtrees, Tree_remove(subtrees, RootPath, k), k, OtherChildren)

\* A node below the root was just removed: the root still names the removed
\* key, which is awaited, and a child it left behind is a cluster root.
MidNodeRemoved ==
    /\ Exists
    /\ run.removed # None
    /\ Sub.root_node \in DOMAIN Sub.nodes
    /\ run.removed \in Children(Sub.nodes[Sub.root_node])
    /\ run.removed \in Sub.waitlist
    /\ \E c \in Sub.cluster_roots \ {Sub.root_node} :
          c \in DOMAIN Sub.nodes /\ c \notin Referenced(Sub)

----------------------------------------------------------------------------
\* The contract of re-inserting key, present in s, with node: undone(ch, key)
\* are the old children whose edges the claim says are undone.
ReinsertContract(s, key, node, undone(_, _)) ==
    LET after == Subtree_insert(s, key, node)
        old == undone(Children(s.nodes[key]), key) \ Children(node)
    IN  /\ \A c \in old : c \notin DOMAIN s.nodes => c \notin after.waitlist
        /\ \A c \in old : c \in DOMAIN s.nodes => c \in after.cluster_roots
        /\ (key \in after.cluster_roots) <=> (key \in s.cluster_roots)

\* node with every slot that names child set to None (the test's
\* `old_parent.left_child = None`, model.rs 902-903).
WithoutChild(node, child) ==
    [node EXCEPT !.left_child = IF @ = child THEN None ELSE @,
                 !.right_child = IF @ = child THEN None ELSE @]

\* In a complete tree with nothing awaited and no cluster root, removing a
\* leaf and re-inserting its parent without that child leaves waitlist and
\* cluster_roots empty (tests::subtree_node_leaf_complete_removal).
LeafCompleteRemoval(s) ==
    (IsCompleteTree(s) /\ s.waitlist = {} /\ s.cluster_roots = {}) =>
        \A leaf \in DOMAIN s.nodes \ {s.root_node} :
            Children(s.nodes[leaf]) = {} =>
                \A ref \in Referrers(s, leaf) :
                    LET parent == ref[1]
                        s1 == Subtree_remove(s, leaf)
                        s2 == Subtree_insert(s1, parent, WithoutChild(s.nodes[parent], leaf))
                    IN  /\ leaf \notin DOMAIN s2.nodes
                        /\ s2.waitlist = {}
                        /\ s2.cluster_roots = {}

\* C11 as stated: in any reachable state, re-inserting a present key with any
\* node un-waits every old child that is absent and not named by the new node,
\* makes every old child that is present and not named by the new node a
\* cluster root, and keeps the key's own cluster-root status; and the leaf
\* removal scenario ends with waitlist and cluster_roots empty.
ReinsertUndoesOldEdgesAsStated ==
    Exists =>
        /\ \A k \in DOMAIN Sub.nodes, node \in Node :
              ReinsertContract(Sub, k, node, AllChildren)
        /\ LeafCompleteRemoval(Sub)

\* C11 (amended): the same, for a key that neither its old node nor the new
\* node names as its own child.
ReinsertUndoesOldEdges ==
    Exists =>
        /\ \A k \in DOMAIN Sub.nodes, node \in Node :
              (k \notin Children(Sub.nodes[k]) /\ k \notin Children(node))
                  => ReinsertContract(Sub, k, node, AllChildren)
        /\ LeafCompleteRemoval(Sub)

\* A cluster root k has one child that is present and one that is absent and
\* awaited; re-inserting k childless makes the first a cluster root and
\* un-waits the second.
ReinsertDropsBothChildren ==
    /\ Exists
    /\ \E k \in DOMAIN Sub.nodes :
          LET old == Children(Sub.nodes[k])
              after == Subtree_insert(Sub, k, [left_child |-> None, right_child |-> None,
                                               element |-> Item])
          IN  /\ k \notin old
              /\ k \in Sub.cluster_roots
              /\ \E c \in old \cap DOMAIN Sub.nodes, d \in old \ DOMAIN Sub.nodes :
                    /\ c \notin Sub.cluster_roots
                    /\ d \in Sub.waitlist
                    /\ c \in after.cluster_roots
                    /\ d \notin after.waitlist
                    /\ k \in after.cluster_roots

----------------------------------------------------------------------------
\* PathCtx (src/src/model/path_display.rs).  A SegmentId is the slab key of a
\* segment; nothing is ever removed from the slab, so Slab::insert hands out
\* consecutive keys, counted here from 1, and None is the root.

Bytes == 1..NumBytes

\* PathSegment (path_display.rs 71-78) without display and profiles_alias.
PathSegment_new(parent, key, level) ==
    [parent_slab_id |-> parent, children_slab_ids |-> << >>, bytes |-> key, level |-> level]

\* The children vector child() searches: of the head segment, or of the root.
ChildrenVec(ctx, head) ==
    IF head = None THEN ctx.root_children_slab_ids ELSE ctx.slab[head].children_slab_ids

\* Iterator::find over the children vector: the first id with these bytes.
FindChild(ctx, head, key) ==
    LET children_vec == ChildrenVec(ctx, head)
        hits == {i \in 1..Len(children_vec) : ctx.slab[children_vec[i]].bytes = key}
    IN  IF hits = {} THEN None
        ELSE children_vec[CHOOSE i \in hits : \A j \in hits : i <= j]

\* Path::child that never looks for an existing child: every call allocates.
Path_child_always_new(ctx, head, key) ==
    LET level == IF head = None THEN 0 ELSE ctx.slab[head].level
        child_segment_id == Len(ctx.slab) + 1
        slab1 == Append(ctx.slab, PathSegment_new(head, key, level + 1))
    IN  [head_slab_id |-> child_segment_id,
         ctx |-> IF head = None
                 THEN [slab |-> slab1,
                       root_children_slab_ids |->
                           Append(ctx.root_children_slab_ids, child_segment_id)]
                 ELSE [slab |-> [slab1 EXCEPT ![head].children_slab_ids =
                                                  Append(@, child_segment_id)],
                       root_children_slab_ids |-> ctx.root_children_slab_ids]]

\* Path::child (path_display.rs 168-203): the handle returned and the PathCtx
\* afterwards.
Path_child(ctx, head, key) ==
    LET level == IF head = None THEN 0 ELSE ctx.slab[head].level
        found == FindChild(ctx, head, key)
        child_segment_id == Len(ctx.slab) + 1
        slab1 == Append(ctx.slab, PathSegment_new(head, key, level + 1))
    IN  IF found # None
        THEN [head_slab_id |-> found, ctx |-> ctx]
        ELSE [head_slab_id |-> child_segment_id,
              ctx |-> IF head = None
                      THEN [slab |-> slab1,
                            root_children_slab_ids |->
                                Append(ctx.root_children_slab_ids, child_segment_id)]
                      ELSE [slab |-> [slab1 EXCEPT ![head].children_slab_ids =
                                                       Append(@, child_segment_id)],
                            root_children_slab_ids |-> ctx.root_children_slab_ids]]

\* SpecPaths: any sequence of child() calls on handles of one PathCtx, as the
\* walks of add_path and add_iter (path_display.rs 41-47, 58-68) make them, in
\* any interleaving.
OutsidePaths == <<subtrees, run, proof, protocol, app, cross, refs, fetch, task>>

InitPaths ==
    /\ PathsInit
    /\ subtrees = [p \in {} |-> Subtree_default]
    /\ run = NoRun
    /\ ProofIdle
    /\ ProtocolIdle
    /\ RestIdle

Child(h, key) ==
    LET res == Path_child(path_ctx, h.head_slab_id, key)
    IN  /\ Len(res.ctx.slab) <= MaxSegments
        /\ path_ctx' = res.ctx
        /\ handles' = handles \cup
               {[head_slab_id |-> res.head_slab_id,
                 bytes |-> Append(h.bytes, key),
                 reused |-> res.ctx = path_ctx]}
        /\ UNCHANGED OutsidePaths

NextPaths == \E h \in handles, key \in Bytes : Child(h, key)

SpecPaths == InitPaths /\ [][NextPaths]_vars

\* The children vectors of the PathCtx: of the root and of every segment.
ChildrenVecs(ctx) ==
    {ctx.root_children_slab_ids} \cup
        {ctx.slab[id].children_slab_ids : id \in 1..Len(ctx.slab)}

\* C12: two handles are == (same head_slab_id) exactly when they were built
\* from the same byte sequence; repeating child(parent, bytes) returns the
\* same handle and leaves the PathCtx as it is; no children vector holds two
\* segments with equal bytes.
PathsStructurallyShared ==
    /\ \A a \in handles, b \in handles :
          (a.head_slab_id = b.head_slab_id) <=> (a.bytes = b.bytes)
    /\ \A h \in handles, key \in Bytes :
          LET first == Path_child(path_ctx, h.head_slab_id, key)
              again == Path_child(first.ctx, h.head_slab_id, key)
          IN  /\ again.head_slab_id = first.head_slab_id
              /\ again.ctx = first.ctx
    /\ \A vec \in ChildrenVecs(path_ctx) :
          \A i \in 1..Len(vec), j \in 1..Len(vec) :
              path_ctx.slab[vec[i]].bytes = path_ctx.slab[vec[j]].bytes => i = j

\* Two walks interleaved and converged: a two-segment address was reached a
\* second time after a segment of another branch had been allocated between
\* the two segments of the first walk.
WalksConverged ==
    \E a \in handles, b \in handles, c \in handles :
        /\ Len(a.bytes) = 2
        /\ ~a.reused /\ b.reused
        /\ a.bytes = b.bytes /\ a.head_slab_id = b.head_slab_id
        /\ c.bytes # << >> /\ c.bytes[1] # a.bytes[1]
        /\ path_ctx.slab[a.head_slab_id].parent_slab_id < c.head_slab_id
        /\ c.head_slab_id < a.head_slab_id

----------------------------------------------------------------------------
\* ProofSubtree::from_iter (src/src/protocol/proof_tree.rs 251-318).

ProofValues == 1..NumValues

\* grovedbg_types::MerkProofOp; x is the node value of Push and PushInverted.
PushOps == {[op |-> o, x |-> v] : o \in {"Push", "PushInverted"}, v \in ProofValues}
AttachOps == {[op |-> o, x |-> 0] : o \in {"Parent", "Child", "ParentInverted", "ChildInverted"}}
MerkProofOp == PushOps \cup AttachOps

\* The op sequences a proof layer may carry.
MerkProofs == UNION {[1..n -> MerkProofOp] : n \in 0..MaxOps}

\* impl From<MerkProofNode> for ProofNode (proof_tree.rs 17-26).
ProofNode_from(value) == [left |-> NoIndex, right |-> NoIndex, proof_value |-> value]

\* Vec::pop twice: the top and the one below it, and what is left.
Top(stack) == stack[Len(stack)]
Below(stack) == stack[Len(stack) - 1]
Popped2(stack) == SubSeq(stack, 1, Len(stack) - 2)

\* tree[idx].left = Some(child) / tree[idx].right = Some(child) on the Vec.
SetLeft(tree, idx, child) == [tree EXCEPT ![idx + 1].left = child]
SetRight(tree, idx, child) == [tree EXCEPT ![idx + 1].right = child]

\* The loop body is entered for the next op of the iterator.
AtOp(o) ==
    /\ proof.result = "running"
    /\ proof.iter # << >>
    /\ Head(proof.iter).op = o

\* `?` on a None of stack.pop(): from_iter returns the error.
Bail == [proof EXCEPT !.result = "err", !.iter = Tail(@)]

\* Both arms that push (proof_tree.rs 260-267).
PushNode(x) ==
    [proof EXCEPT !.tree = Append(@, ProofNode_from(x)),
                  !.stack = Append(@, Len(proof.tree)),
                  !.iter = Tail(@)]

\* The Parent arm with the child attached on the right.
Op_Parent_right(stack, tree) ==
    LET parent_idx == Top(stack)
        child_idx == Below(stack)
    IN  [stack |-> Append(Popped2(stack), parent_idx),
         tree |-> SetRight(tree, parent_idx, child_idx)]

\* MerkProofOp::Parent (proof_tree.rs 268-278), both pops having succeeded.
Op_Parent(stack, tree) ==
    LET parent_idx == Top(stack)
        child_idx == Below(stack)
    IN  [stack |-> Append(Popped2(stack), parent_idx),
         tree |-> SetLeft(tree, parent_idx, child_idx)]

\* The Child arm popping the parent first.
Op_Child_swapped(stack, tree) ==
    LET parent_idx == Top(stack)
        child_idx == Below(stack)
    IN  [stack |-> Append(Popped2(stack), parent_idx),
         tree |-> SetRight(tree, parent_idx, child_idx)]

\* MerkProofOp::Child (proof_tree.rs 279-289).
Op_Child(stack, tree) ==
    LET child_idx == Top(stack)
        parent_idx == Below(stack)
    IN  [stack |-> Append(Popped2(stack), parent_idx),
         tree |-> SetRight(tree, parent_idx, child_idx)]

\* MerkProofOp::ParentInverted (proof_tree.rs 290-300).
Op_ParentInverted(stack, tree) ==
    LET parent_idx == Top(stack)
        child_idx == Below(stack)
    IN  [stack |-> Append(Popped2(stack), parent_idx),
         tree |-> SetRight(tree, parent_idx, child_idx)]

\* MerkProofOp::ChildInverted (proof_tree.rs 301-311).
Op_ChildInverted(stack, tree) ==
    LET child_idx == Top(stack)
        parent_idx == Below(stack)
    IN  [stack |-> Append(Popped2(stack), parent_idx),
         tree |-> SetLeft(tree, parent_idx, child_idx)]

\* An attach arm: either pop failing returns the error, otherwise the arm's
\* effect on stack and tree.
Attached(res) == [proof EXCEPT !.stack = res.stack, !.tree = res.tree, !.iter = Tail(@)]

\* The final test with any non-empty stack accepted.
ProofFinish_nonempty(m) ==
    IF Len(m.stack) >= 1
    THEN [m EXCEPT !.result = "ok", !.root = m.stack[1]]
    ELSE [m EXCEPT !.result = "err"]

\* The final test of from_iter (proof_tree.rs 315-317).
ProofFinish(m) ==
    IF Len(m.stack) = 1
    THEN [m EXCEPT !.result = "ok", !.root = m.stack[1]]
    ELSE [m EXCEPT !.result = "err"]

\* SpecProof: from_iter is called with any op sequence of at most MaxOps ops
\* and runs its loop op by op.
OutsideProof == <<subtrees, run, path_ctx, handles, protocol, app, cross, refs, fetch, task>>

InitProof ==
    /\ \E ops \in MerkProofs :
          proof = [NoProof EXCEPT !.input = ops, !.iter = ops, !.result = "running"]
    /\ subtrees = [p \in {} |-> Subtree_default]
    /\ run = NoRun
    /\ PathsInit
    /\ ProtocolIdle
    /\ RestIdle

Push ==
    /\ AtOp("Push")
    /\ proof' = PushNode(Head(proof.iter).x)
    /\ UNCHANGED OutsideProof

PushInverted ==
    /\ AtOp("PushInverted")
    /\ proof' = PushNode(Head(proof.iter).x)
    /\ UNCHANGED OutsideProof

Parent ==
    /\ AtOp("Parent")
    /\ proof' = IF Len(proof.stack) < 2 THEN Bail
                 ELSE Attached(Op_Parent(proof.stack, proof.tree))
    /\ UNCHANGED OutsideProof

ChildOp ==
    /\ AtOp("Child")
    /\ proof' = IF Len(proof.stack) < 2 THEN Bail
                 ELSE Attached(Op_Child(proof.stack, proof.tree))
    /\ UNCHANGED OutsideProof

ParentInverted ==
    /\ AtOp("ParentInverted")
    /\ proof' = IF Len(proof.stack) < 2 THEN Bail
                 ELSE Attached(Op_ParentInverted(proof.stack, proof.tree))
    /\ UNCHANGED OutsideProof

ChildInverted ==
    /\ AtOp("ChildInverted")
    /\ proof' = IF Len(proof.stack) < 2 THEN Bail
                 ELSE Attached(Op_ChildInverted(proof.stack, proof.tree))
    /\ UNCHANGED OutsideProof

Finish ==
    /\ proof.result = "running"
    /\ proof.iter = << >>
    /\ proof' = ProofFinish(proof)
    /\ UNCHANGED OutsideProof

NextProof ==
    \/ Push
    \/ PushInverted
    \/ Parent
    \/ ChildOp
    \/ ParentInverted
    \/ ChildInverted
    \/ Finish

SpecProof == InitProof /\ [][NextProof]_vars

\* from_iter has returned.
Returned == proof.result \in {"ok", "err"}

\* The stack size after ops started with d indices on the stack, or -1 when an
\* attach op finds fewer than two.
RECURSIVE DepthAfter(_, _)
DepthAfter(ops, d) ==
    IF ops = << >> THEN d
    ELSE IF Head(ops) \in PushOps THEN DepthAfter(Tail(ops), d + 1)
    ELSE IF d < 2 THEN -1
    ELSE DepthAfter(Tail(ops), d - 1)

\* C13: from_iter succeeds exactly when no attach op is executed with fewer
\* than two indices on the stack and one index is left after the last op;
\* root is then that index; the empty sequence and two pushes are rejected.
ProofAcceptedIffOneRoot ==
    Returned =>
        /\ (proof.result = "ok") <=> (DepthAfter(proof.input, 0) = 1)
        /\ proof.result = "ok" => proof.stack = <<proof.root>>
        /\ proof.input = << >> => proof.result = "err"
        /\ (Len(proof.input) = 2 /\ proof.input[1] \in PushOps /\ proof.input[2] \in PushOps)
              => proof.result = "err"

\* [Push(x), Push(y)] was given and rejected with two indices on the stack.
TwoPushesRejected ==
    /\ proof.result = "err"
    /\ Len(proof.input) = 2
    /\ proof.input[1].op = "Push" /\ proof.input[2].op = "Push"
    /\ proof.stack = <<0, 1>>

\* tree2 is tree1 with the left (side = "left") or right child of the node at
\* index parent set to child, and nothing else changed.
OnlyChildSet(tree1, tree2, parent, side, child) ==
    /\ Len(tree2) = Len(tree1)
    /\ \A i \in 1..Len(tree1) : i # parent + 1 => tree2[i] = tree1[i]
    /\ tree2[parent + 1].proof_value = tree1[parent + 1].proof_value
    /\ IF side = "left"
       THEN tree2[parent + 1].left = child /\ tree2[parent + 1].right = tree1[parent + 1].right
       ELSE tree2[parent + 1].right = child /\ tree2[parent + 1].left = tree1[parent + 1].left

\* One op of the specified stack machine between (stack1, tree1) and
\* (stack2, tree2); the top of the stack is its last element.
StackMachineStep(op, stack1, tree1, stack2, tree2) ==
    LET n == Len(stack1)
        top == stack1[n]
        next == stack1[n - 1]
        rest == SubSeq(stack1, 1, n - 2)
    IN  CASE op.op \in {"Push", "PushInverted"} ->
               /\ tree2 = Append(tree1, [left |-> NoIndex, right |-> NoIndex,
                                          proof_value |-> op.x])
               /\ stack2 = Append(stack1, Len(tree2) - 1)
          [] op.op = "Parent" ->
               stack2 = Append(rest, top) /\ OnlyChildSet(tree1, tree2, top, "left", next)
          [] op.op = "Child" ->
               stack2 = Append(rest, next) /\ OnlyChildSet(tree1, tree2, next, "right", top)
          [] op.op = "ParentInverted" ->
               stack2 = Append(rest, top) /\ OnlyChildSet(tree1, tree2, top, "right", next)
          [] op.op = "ChildInverted" ->
               stack2 = Append(rest, next) /\ OnlyChildSet(tree1, tree2, next, "left", top)

\* C14: every op that from_iter executes without returning an error changes
\* (stack, tree) exactly as the specified stack machine does.
ProofOpsAsSpecified ==
    [][(proof.result = "running" /\ proof.iter # << >> /\ proof'.result = "running")
          => StackMachineStep(Head(proof.iter), proof.stack, proof.tree,
                              proof'.stack, proof'.tree)]_vars

\* All four attach ops have been seen at work: a proof with an inverted attach
\* was accepted and its root has the other pushed node as a child.
InvertedAttachAccepted ==
    /\ proof.result = "ok"
    /\ Len(proof.tree) = 2
    /\ \E i \in 1..Len(proof.input) : proof.input[i].op \in {"ParentInverted", "ChildInverted"}
    /\ \/ proof.root = 0 /\ proof.tree[1].left = 1
       \/ proof.root = 1 /\ proof.tree[2].right = 0

\* [Push(x), Push(y), Parent] was given and from_iter has returned.
PushPushParentDone ==
    /\ Returned
    /\ Len(proof.input) = 3
    /\ proof.input[1].op = "Push" /\ proof.input[2].op = "Push"
    /\ proof.input[3].op = "Parent"

\* C15 as stated: [Push(x), Push(y), Parent] is accepted, ends with a stack of
\* size 1, and the left child of x's node (index 0) is the index of y's node
\* (index 1).
PushPushParentAsStated ==
    PushPushParentDone =>
        /\ proof.result = "ok"
        /\ Len(proof.stack) = 1
        /\ proof.tree[1].proof_value = proof.input[1].x
        /\ proof.tree[1].left = 1

\* C15 (amended): [Push(x), Push(y), Parent] is accepted, ends with a stack
\* of size 1, and the left child of y's node (index 1, the root) is the index
\* of x's node (index 0); x's node stays childless.
PushPushParentLinksYToX ==
    PushPushParentDone =>
        /\ proof.result = "ok"
        /\ Len(proof.stack) = 1
        /\ proof.root = 1
        /\ proof.tree[2].proof_value = proof.input[2].x
        /\ proof.tree[2].left = 0
        /\ proof.tree[2].right = NoIndex
        /\ proof.tree[1].proof_value = proof.input[1].x
        /\ proof.tree[1].left = NoIndex /\ proof.tree[1].right = NoIndex

\* [Push(x), Push(y), Parent] with different x and y was accepted.
PushPushParentAccepted ==
    /\ PushPushParentDone
    /\ proof.result = "ok"
    /\ proof.input[1].x # proof.input[2].x

----------------------------------------------------------------------------
\* SpecTree: any sequence of at most MaxTreeCalls Tree::insert, Tree::remove
\* and Tree::clear_subtree calls at any path of at most MaxDepth segments on a
\* new Tree.  The nodes are those from_update makes of a NodeUpdate
\* (proto_conversion.rs 247-266), here without child links: an item or a
\* Subtree/Sumtree link, never a SubtreePlaceholder.

TreeKeys == 1..NumTreeKeys
TreePaths == UNION {[1..n -> TreeKeys] : n \in 0..MaxDepth}
TreeNodes ==
    {[left_child |-> None, right_child |-> None, element |-> e] :
        e \in {Item} \cup [kind : {"Subtree", "Sumtree"}, root_key : TreeKeys \cup {None}]}

InsertAt(path, key, node) ==
    /\ run.calls < MaxTreeCalls
    /\ subtrees' = Tree_insert(subtrees, path, key, node)
    /\ run' = [run EXCEPT !.removed = None, !.calls = @ + 1]
    /\ UNCHANGED OutsideTree

RemoveAt(path, key) ==
    /\ run.calls < MaxTreeCalls
    /\ subtrees' = Tree_remove(subtrees, path, key)
    /\ run' = [run EXCEPT !.removed = None, !.calls = @ + 1]
    /\ UNCHANGED OutsideTree

ClearAt(path) ==
    /\ run.calls < MaxTreeCalls
    /\ subtrees' = Tree_clear_subtree(subtrees, path)
    /\ run' = [run EXCEPT !.removed = None, !.calls = @ + 1]
    /\ UNCHANGED OutsideTree

NextTree ==
    \/ \E path \in TreePaths, key \in TreeKeys, node \in TreeNodes : InsertAt(path, key, node)
    \/ \E path \in TreePaths, key \in TreeKeys : RemoveAt(path, key)
    \/ \E path \in TreePaths : ClearAt(path)

SpecTree == Init /\ [][NextTree]_vars

\* The proper prefixes of a path, and all its prefixes.
ProperPrefixes(path) == {SubSeq(path, 1, n) : n \in 0..(Len(path) - 1)}
Prefixes(path) == ProperPrefixes(path) \cup {path}

\* The nodes map of the subtree at path, empty when there is no entry.
NodesAt(t, path) == IF path \in DOMAIN t THEN t[path].nodes ELSE EmptyNodes

\* What the chain gives for path between the tree t before and u after: every
\* prefix has an entry, and each proper prefix holds a node under the next
\* segment's key, the one that was there or else a SubtreePlaceholder.
ChainPopulated(t, u, path) ==
    /\ Prefixes(path) \subseteq DOMAIN u
    /\ \A p \in ProperPrefixes(path) :
          LET k == path[Len(p) + 1]
          IN  /\ k \in DOMAIN u[p].nodes
              /\ IF k \in DOMAIN NodesAt(t, p)
                 THEN u[p].nodes[k] = t[p].nodes[k]
                 ELSE u[p].nodes[k].element = SubtreePlaceholder

\* A further call can be made in this state.
CallsLeft == run.calls < MaxTreeCalls

\* C16: from any reachable state, after populate_subtrees_chain for a path,
\* and after every Tree::insert the calls can make, every prefix of the path
\* has a subtree entry, each proper prefix holds a node under the next
\* segment's key (a SubtreePlaceholder if none was there, the old node
\* unchanged otherwise), and populate_subtrees_chain adds no node to the
\* path's own subtree.
ChainOfSubtreesPopulated ==
    \A path \in TreePaths :
        LET chained == populate_subtrees_chain(subtrees, path)
        IN  /\ ChainPopulated(subtrees, chained, path)
            /\ chained[path].nodes = NodesAt(subtrees, path)
            /\ CallsLeft =>
                  \A key \in TreeKeys, node \in TreeNodes :
                      ChainPopulated(subtrees, Tree_insert(subtrees, path, key, node), path)

\* An insert two levels down has met one link that was already known (left
\* as it was) and made a placeholder for the other segment; only the inserted
\* node is in the target subtree.
DeepInsertKeptLink ==
    \E path \in TreePaths :
        /\ Len(path) = 2
        /\ path \in DOMAIN subtrees
        /\ Cardinality(DOMAIN subtrees[path].nodes) = 1
        /\ subtrees[RootPath].nodes[path[1]].element.kind = "Subtree"
        /\ subtrees[<<path[1]>>].nodes[path[2]].element = SubtreePlaceholder

\* The element kinds SubtreeCtx::iter_subtrees follows (iter_subtree_keys,
\* model.rs 508-516).
IsSubtreeKey(node) == node.element.kind \in {"Sumtree", "Subtree", "SubtreePlaceholder"}

\* C17: in every state reachable by Tree::insert, Tree::remove and
\* Tree::clear_subtree, every node whose element is Subtree, Sumtree or
\* SubtreePlaceholder has a subtree entry at path.child(key), and no call the
\* program can make next deletes a subtree entry.
LinkedSubtreesExist ==
    /\ \A p \in DOMAIN subtrees :
          \A k \in DOMAIN subtrees[p].nodes :
              IsSubtreeKey(subtrees[p].nodes[k]) => Append(p, k) \in DOMAIN subtrees
    /\ CallsLeft =>
          \A path \in TreePaths :
              /\ DOMAIN subtrees \subseteq DOMAIN Tree_clear_subtree(subtrees, path)
              /\ \A key \in TreeKeys :
                    /\ DOMAIN subtrees \subseteq DOMAIN Tree_remove(subtrees, path, key)
                    /\ \A node \in TreeNodes :
                          DOMAIN subtrees \subseteq DOMAIN Tree_insert(subtrees, path, key, node)

\* A link without root_key was inserted one level down: its empty subtree
\* has an entry, and so has the subtree of the placeholder made for it at the
\* root.
EmptyLinkHasEntry ==
    \E p \in DOMAIN subtrees :
        /\ Len(p) = 1
        /\ subtrees[RootPath].nodes[p[1]].element = SubtreePlaceholder
        /\ \E k \in DOMAIN subtrees[p].nodes :
              /\ subtrees[p].nodes[k].element.kind = "Sumtree"
              /\ subtrees[p].nodes[k].element.root_key = None
              /\ Append(p, k) \in DOMAIN subtrees

\* C18: from any reachable state, inserting at (path, key) a Subtree or
\* Sumtree link with root_key = Some(r) leaves a subtree at path.child(key)
\* whose root_node is r and whose cluster_roots do not hold r.
LinkSetsChildRoot ==
    CallsLeft =>
        \A path \in TreePaths, key \in TreeKeys, r \in TreeKeys, kind \in {"Subtree", "Sumtree"} :
            LET node == [left_child |-> None, right_child |-> None,
                         element |-> [kind |-> kind, root_key |-> r]]
                after == Tree_insert(subtrees, path, key, node)
                child_path == Append(path, key)
            IN  /\ child_path \in DOMAIN after
                /\ after[child_path].root_node = r
                /\ r \notin after[child_path].cluster_roots

\* The root arrived before the link: key r is a node and a cluster root of
\* the subtree at <<k>>, and inserting the link (k, Subtree with root_key r)
\* at the root makes r its root_node and no cluster root.
LinkArrivesAfterRoot ==
    /\ CallsLeft
    /\ \E k \in TreeKeys, r \in TreeKeys :
          LET node == [left_child |-> None, right_child |-> None,
                       element |-> [kind |-> "Subtree", root_key |-> r]]
              after == Tree_insert(subtrees, RootPath, k, node)
          IN  /\ <<k>> \in DOMAIN subtrees
              /\ r \in DOMAIN subtrees[<<k>>].nodes
              /\ r \in subtrees[<<k>>].cluster_roots
              /\ subtrees[<<k>>].root_node = None
              /\ after[<<k>>].root_node = r
              /\ after[<<k>>].cluster_roots = subtrees[<<k>>].cluster_roots \ {r}

\* C19: clear_subtree(path) empties the nodes map of the subtree at path and
\* changes nothing else: the entry stays with its root_node, cluster_roots and
\* waitlist, every other subtree is unchanged, and without a subtree at path
\* nothing changes.
ClearSubtreeFrame ==
    \A path \in TreePaths :
        LET after == Tree_clear_subtree(subtrees, path)
        IN  IF path \notin DOMAIN subtrees THEN after = subtrees
            ELSE /\ DOMAIN after = DOMAIN subtrees
                 /\ after[path].nodes = EmptyNodes
                 /\ after[path].root_node = subtrees[path].root_node
                 /\ after[path].cluster_roots = subtrees[path].cluster_roots
                 /\ after[path].waitlist = subtrees[path].waitlist
                 /\ \A p \in DOMAIN subtrees \ {path} : after[p] = subtrees[p]

\* A subtree below the root was cleared: its nodes are gone, its two cluster
\* roots are still recorded, and the root subtree still holds the placeholder
\* for it.
SubtreeCleared ==
    \E p \in DOMAIN subtrees :
        /\ Len(p) = 1
        /\ subtrees[p].nodes = EmptyNodes
        /\ Cardinality(subtrees[p].cluster_roots) = 2
        /\ p[1] \in DOMAIN subtrees[RootPath].nodes
        /\ subtrees[RootPath].nodes[p[1]].element = SubtreePlaceholder

----------------------------------------------------------------------------
\* The protocol task and the application's update loop: start_grovedbg_protocol
\* and process_command (src/src/protocol.rs 16-243), ProofTree
\* (src/src/protocol/proof_tree.rs 36-228), CommandBus (src/src/bus.rs 37-62)
\* and the update loop of GroveDbgApp::update (src/src/lib.rs 392-424).

\* from_iter as a function of the op sequence: the loop of proof_tree.rs
\* 258-313 followed by the final test.
RECURSIVE from_iter_loop(_, _, _)
from_iter_loop(iter, stack, tree) ==
    IF iter = << >>
    THEN ProofFinish([NoProof EXCEPT !.stack = stack, !.tree = tree])
    ELSE LET op == Head(iter)
         IN  IF op.op \in {"Push", "PushInverted"}
             THEN from_iter_loop(Tail(iter), Append(stack, Len(tree)),
                                 Append(tree, ProofNode_from(op.x)))
             ELSE IF Len(stack) < 2
             THEN [NoProof EXCEPT !.result = "err"]
             ELSE LET res == CASE op.op = "Parent" -> Op_Parent(stack, tree)
                               [] op.op = "Child" -> Op_Child(stack, tree)
                               [] op.op = "ParentInverted" -> Op_ParentInverted(stack, tree)
                               [] op.op = "ChildInverted" -> Op_ChildInverted(stack, tree)
                  IN  from_iter_loop(Tail(iter), res.stack, res.tree)

from_iter(ops) == from_iter_loop(ops, << >>, << >>)

\* The merk_proof of one ProofLayer: at most MaxLayerOps ops out of Push(1)
\* and Parent.
LayerOps == {[op |-> "Push", x |-> 1], [op |-> "Parent", x |-> 0]}
LayerProofs == UNION {[1..n -> LayerOps] : n \in 0..MaxLayerOps}

\* grovedbg_types::Proof as the sequence of its layers in the order
\* ProofTree::new takes them off its queue: the root layer first, then the
\* lower layers.
Proofs == UNION {[1..n -> LayerProofs] : n \in 1..MaxLayers}

\* The version of the GroveDB data a backend answer was computed from.
DataVersions == 1..NumData

\* What the backend does to the requests of one command: answers all of
\* them (NoFault), or fails the first request made to the endpoint `at`,
\* with 401 ("unauthorized"), with another HTTP or transport error
\* ("error"), or, for the node data fetch_subtree cross-references, with
\* data that does not match the proof ("mismatch": the bail! of
\* proof_tree.rs 88, 123, 172).
NoFault == [at |-> "none", err |-> "none"]
Faults ==
    {NoFault}
    \cup [at : {"prove_path_query", "fetch_root_node", "fetch_node"},
          err : {"unauthorized", "error"}]
    \cup {[at |-> "fetch_node", err |-> "mismatch"]}

\* The backend's answer to a ProvePathQuery command.
ProveResponses == [proof : Proofs, fault : Faults, data : DataVersions]

\* ProtocolCommand (protocol.rs 64-72) with the FetchCommand (protocol.rs
\* 57-62) inside it.
NewSession(old_session) == [kind |-> "NewSession", session |-> old_session]
Fetch(session_id, command) == [kind |-> command, session |-> session_id]

\* GroveGdbUpdate (protocol.rs 76-86).
Update_RootUpdate(data) == [kind |-> "RootUpdate", session |-> NoSession, proof |-> << >>, data |-> data]
Update_Session(session_id) == [kind |-> "Session", session |-> session_id, proof |-> << >>, data |-> 0]
Update_Proof(layers, data) == [kind |-> "Proof", session |-> NoSession, proof |-> layers, data |-> data]

\* anyhow::Result<GroveGdbUpdate>: Ok(update), or Err with whether the error
\* is a reqwest::Error of status 401.
Ok(update) == [ok |-> TRUE, unauthorized |-> FALSE, update |-> update]
Err(err) == [ok |-> FALSE, unauthorized |-> err = "unauthorized", update |-> Update_RootUpdate(0)]

\* ProofTree::new with only the root layer parsed.
ProofTree_new_root_only(layers, fault) ==
    IF from_iter(layers[1]).result = "err" THEN "error"
    ELSE IF fault.at = "fetch_root_node" THEN fault.err
    ELSE "none"

\* ProofTree::new (proof_tree.rs 36-67): from_iter on every layer, then
\* fetch_root_node; the error it returns, "none" for Ok.
ProofTree_new(layers, fault) ==
    IF \E i \in 1..Len(layers) : from_iter(layers[i]).result = "err" THEN "error"
    ELSE IF fault.at = "fetch_root_node" THEN fault.err
    ELSE "none"

\* fetch_additional_data (proof_tree.rs 222-228): fetch_subtree on every
\* path, the first error returned.
fetch_additional_data(fault) ==
    IF fault.at = "fetch_node"
    THEN IF fault.err = "mismatch" THEN "error" ELSE fault.err
    ELSE "none"

\* The ProvePathQuery arm of process_command (protocol.rs 162-197).
process_command_ProvePathQuery(resp) ==
    IF resp.fault.at = "prove_path_query" THEN Err(resp.fault.err)
    ELSE IF ProofTree_new(resp.proof, resp.fault) # "none"
    THEN Err(ProofTree_new(resp.proof, resp.fault))
    ELSE IF fetch_additional_data(resp.fault) # "none"
    THEN Err(fetch_additional_data(resp.fault))
    ELSE Ok(Update_Proof(resp.proof, resp.data))

\* The body of the loop of start_grovedbg_protocol (protocol.rs 29-51) once
\* cmd was received from the channel src and process_command returned
\* result: an Ok is sent on the updates channel, an Err is logged, and a
\* 401 also queues a NewSession on the feedback channel.
LoopBody(src, cmd, result) ==
    LET received == [protocol EXCEPT ![src] = Tail(@)]
    IN  IF result.ok
        THEN [received EXCEPT !.updates = Append(@, result.update),
                              !.last = [command |-> cmd.kind, outcome |-> "sent"]]
        ELSE IF result.unauthorized
        THEN [received EXCEPT !.feedback = Append(@, NewSession(NoSession)),
                              !.last = [command |-> cmd.kind, outcome |-> "expired"]]
        ELSE [received EXCEPT !.last = [command |-> cmd.kind, outcome |-> "error"]]

\* The two receivers of the tokio::select! (protocol.rs 29-32).
Channels == {"commands", "feedback"}

OutsideProtocol == <<subtrees, run, path_ctx, handles, proof, cross, refs, fetch, task>>

\* start_grovedbg_app (lib.rs 44-86) has created the bus and called
\* bus.new_session(); the protocol task is started.
InitProtocol ==
    /\ protocol = [NoProtocol EXCEPT !.commands = <<NewSession(NoSession)>>]
    /\ app = NoApp
    /\ subtrees = [p \in {} |-> Subtree_default]
    /\ run = NoRun
    /\ PathsInit
    /\ ProofIdle
    /\ RestIdle

\* The loop receives a NewSession command (protocol.rs 223-242): the old
\* session is dropped, a new one requested.
ProcessNewSession(src, err) ==
    /\ protocol[src] # << >>
    /\ Head(protocol[src]).kind = "NewSession"
    /\ IF err = "none"
       THEN /\ protocol.sessions < MaxSessions
            /\ protocol' = [LoopBody(src, Head(protocol[src]),
                                     Ok(Update_Session(protocol.sessions + 1)))
                               EXCEPT !.sessions = @ + 1]
       ELSE protocol' = LoopBody(src, Head(protocol[src]), Err(err))
    /\ UNCHANGED <<app, OutsideProtocol>>

\* The loop receives a FetchRoot command (protocol.rs 138-149); data = 0 is
\* the backend's None for an empty GroveDB.
ProcessFetchRoot(src, err, data) ==
    /\ protocol[src] # << >>
    /\ Head(protocol[src]).kind = "FetchRoot"
    /\ protocol' = LoopBody(src, Head(protocol[src]),
                            IF err = "none" THEN Ok(Update_RootUpdate(data)) ELSE Err(err))
    /\ UNCHANGED <<app, OutsideProtocol>>

\* The loop receives a ProvePathQuery command.
ProcessProvePathQuery(src, resp) ==
    /\ protocol[src] # << >>
    /\ Head(protocol[src]).kind = "ProvePathQuery"
    /\ protocol' = LoopBody(src, Head(protocol[src]), process_command_ProvePathQuery(resp))
    /\ UNCHANGED <<app, OutsideProtocol>>

\* The "New session" button (lib.rs 374-382): CommandBus::new_session
\* (bus.rs 37-44) takes the session out of the bus.
NewSessionClicked ==
    /\ app.clicks < MaxClicks
    /\ protocol' = [protocol EXCEPT !.commands = Append(@, NewSession(app.session))]
    /\ app' = [app EXCEPT !.session = NoSession, !.clicks = @ + 1]
    /\ UNCHANGED OutsideProtocol

\* The query builder asks for a proof (query_builder.rs 68):
\* CommandBus::fetch_command (bus.rs 50-62) sends it when there is a session.
ProveClicked ==
    /\ app.clicks < MaxClicks
    /\ app.session # NoSession
    /\ protocol' = [protocol EXCEPT !.commands = Append(@, Fetch(app.session, "ProvePathQuery"))]
    /\ app' = [app EXCEPT !.clicks = @ + 1]
    /\ UNCHANGED OutsideProtocol

\* TreeData::apply_node_update for the node updates of the subtrees 1..n,
\* all fetched at the data version data.
apply_node_updates(tree_data, n, data) ==
    [i \in 1..(IF n > Len(tree_data) THEN n ELSE Len(tree_data)) |->
        IF i <= n THEN data ELSE tree_data[i]]

\* to_proof_tree_data (proof_tree.rs 237-248) of every subtree of the proof.
tree_proof_data(layers) ==
    [i \in 1..Len(layers) |->
        LET t == from_iter(layers[i]).tree
        IN  [j \in 1..Len(t) |-> t[j].proof_value]]

\* One turn of the loop over updates_receiver (lib.rs 392-424).
AppUpdate ==
    /\ protocol.updates # << >>
    /\ LET update == Head(protocol.updates)
           received == [protocol EXCEPT !.updates = Tail(@)]
       IN  CASE update.kind = "Proof" ->
                  /\ app' = [app EXCEPT
                        !.tree_data = apply_node_updates(@, Len(update.proof), update.data),
                        !.proof_viewer = update.proof,
                        !.proof_data = tree_proof_data(update.proof),
                        !.show_proof_viewer = TRUE]
                  /\ protocol' = received
             [] update.kind = "RootUpdate" ->
                  /\ app' = IF update.data = 0 THEN app
                            ELSE [app EXCEPT !.tree_data = apply_node_updates(@, 1, update.data)]
                  /\ protocol' = received
             [] update.kind = "Session" ->
                  /\ app' = [app EXCEPT !.session = update.session]
                  /\ protocol' = [received EXCEPT
                        !.commands = Append(@, Fetch(update.session, "FetchRoot"))]
    /\ UNCHANGED OutsideProtocol

NextProtocol ==
    \/ \E src \in Channels, err \in {"none", "unauthorized", "error"} :
          ProcessNewSession(src, err)
    \/ \E src \in Channels, err \in {"none", "unauthorized", "error"},
          data \in DataVersions \cup {0} :
          ProcessFetchRoot(src, err, data)
    \/ \E src \in Channels, resp \in ProveResponses : ProcessProvePathQuery(src, resp)
    \/ NewSessionClicked
    \/ ProveClicked
    \/ AppUpdate

SpecProtocol == InitProtocol /\ [][NextProtocol]_vars

\* A layer whose op sequence is malformed: an attach op without two indices
\* on the stack, or not exactly one index left at the end.
Malformed(ops) == DepthAfter(ops, 0) # 1

\* Building the proof tree or cross-referencing it fails for the answer resp.
ProofFails(resp) ==
    \/ \E i \in 1..Len(resp.proof) : Malformed(resp.proof[i])
    \/ resp.fault.at \in {"fetch_root_node", "fetch_node"}

\* The loop takes a ProvePathQuery command off the channel src and logs a
\* failure for it.
ProofRequestFailed(src) ==
    /\ protocol[src] # << >>
    /\ Head(protocol[src]).kind = "ProvePathQuery"
    /\ protocol'[src] = Tail(protocol[src])
    /\ protocol'.last.command = "ProvePathQuery"
    /\ protocol'.last.outcome \in {"expired", "error"}

\* C20: when building or cross-referencing the proof fails for a
\* ProvePathQuery request (a malformed op sequence in any layer, a failing
\* fetch of the root node or of a node during fetch_additional_data), the
\* loop logs the failure and sends nothing on the updates channel; and the
\* step in which a proof request fails leaves the updates channel and the
\* application (proof viewer, proof data, tree data) exactly as they were;
\* so no Proof update in flight and no proof shown has a malformed layer.
FailedProofDeliversNothing ==
    /\ [](/\ \A i \in 1..Len(protocol.updates) :
               protocol.updates[i].kind = "Proof" =>
                   \A j \in 1..Len(protocol.updates[i].proof) :
                       ~Malformed(protocol.updates[i].proof[j])
          /\ \A j \in 1..Len(app.proof_viewer) : ~Malformed(app.proof_viewer[j]))
    /\ [](\A src \in Channels :
            (protocol[src] # << >> /\ Head(protocol[src]).kind = "ProvePathQuery") =>
                \A resp \in ProveResponses :
                    ProofFails(resp) =>
                        LET after == LoopBody(src, Head(protocol[src]),
                                              process_command_ProvePathQuery(resp))
                        IN  /\ after.updates = protocol.updates
                            /\ after.last.outcome \in {"expired", "error"})
    /\ [][\A src \in Channels :
            ProofRequestFailed(src) =>
                /\ protocol'.updates = protocol.updates
                /\ app' = app]_vars

\* A proof request has failed while the viewer was showing an earlier proof
\* of two layers, with nothing in flight towards the application.
ProofFailedWhileShown ==
    /\ protocol.last = [command |-> "ProvePathQuery", outcome |-> "error"]
    /\ protocol.updates = << >>
    /\ app.show_proof_viewer
    /\ Len(app.proof_viewer) = 2
    /\ Len(app.proof_data) = 2
    /\ Len(app.tree_data) = 2

----------------------------------------------------------------------------
\* Cross-referencing a proof with the real nodes: ProofTree::fetch_subtree and
\* ProofTree::fetch_additional_data (src/src/protocol/proof_tree.rs 70-228),
\* called from the ProvePathQuery arm of process_command (protocol.rs 179-196).

\* The shapes of proof subtrees: what from_iter builds from the op sequences
\* of at most n ops out of Push, Parent and Child that it accepts.
CrossOps ==
    {[op |-> "Push", x |-> 1], [op |-> "Parent", x |-> 0], [op |-> "Child", x |-> 0]}

ProofSubtrees(n) ==
    LET accepted == {ops \in UNION {[1..m -> CrossOps] : m \in 0..n} :
                        from_iter(ops).result = "ok"}
    IN  {[tree |-> from_iter(ops).tree, root |-> from_iter(ops).root] : ops \in accepted}

\* The keys of the real nodes: a left child, when there is one, has the key
\* LeftKey, a right child the key RightKey, and the root node of a subtree
\* below the root the key LowerRootKey.
LeftKey == 1
RightKey == 2
LowerRootKey == 1

\* grovedbg_types::NodeUpdate as far as fetch_subtree reads it: the key, the
\* child keys, and the root key of a Subtree or Sumtree element (None for
\* any other element and for an empty subtree).
NodeUpdates(key) ==
    [key : {key}, left_child : {None, LeftKey}, right_child : {None, RightKey},
     root_key : {None, LowerRootKey}]

\* Ok(...) of fetch_node (protocol.rs 94-112) asked for key.
Answers(key) == NodeUpdates(key) \cup {NoUpdate}

\* ProofTree::tree (proof_tree.rs 29) in the order of its BTreeMap: the root
\* layer, then the lower layer, under either key, if the proof has one.
CrossLayers ==
    {<<[path |-> << >>, tree |-> r.tree, root |-> r.root]>> :
        r \in ProofSubtrees(MaxRootOps)}
    \cup {<<[path |-> << >>, tree |-> r.tree, root |-> r.root],
            [path |-> <<k>>, tree |-> l.tree, root |-> l.root]>> :
            r \in ProofSubtrees(MaxRootOps), l \in ProofSubtrees(MaxLowerOps),
            k \in {LeftKey, RightKey}}

\* self.tree.get_mut(&path): the index of the layer at path, 0 for None.
LayerAt(c, path) ==
    IF \E i \in 1..Len(c.layers) : c.layers[i].path = path
    THEN CHOOSE i \in 1..Len(c.layers) : c.layers[i].path = path
    ELSE 0

\* The locals node and node_update of fetch_subtree (proof_tree.rs 80-89).
CurNode(c) == c.layers[c.path].tree[c.idx + 1]
CurUpdate(c) == c.node_update[c.path][c.idx + 1]

\* bail! and `?`: fetch_subtree, fetch_additional_data and process_command
\* return the error.
Fail(c, e) == [c EXCEPT !.result = "err", !.error = e, !.pc = "done"]

\* subtree.tree[subtree.root].node_update = fetch_node(...) (proof_tree.rs
\* 108-116, 147-156, 196-205).
SetSubtreeRoot(c, layer, ans) ==
    [c EXCEPT !.node_update[layer][c.layers[layer].root + 1] = ans]

\* tree[proof_left].node_update = update (proof_tree.rs 160-166, 209-215).
Attach(c, child_idx) == [c EXCEPT !.node_update[c.path][child_idx + 1] = c.update]

\* The right half of the loop body up to its first await (proof_tree.rs
\* 168-181).
EnterRight(c) ==
    IF CurNode(c).right # NoIndex
    THEN LET queued == [c EXCEPT !.queue = Append(@, CurNode(c).right)]
         IN  IF CurUpdate(c).right_child = None
             THEN Fail(queued, "mismatch")
             ELSE [queued EXCEPT !.pc = "right"]
    ELSE [c EXCEPT !.pc = "pop"]

\* The left half without the test of the real node's left child key.
EnterLeft_unchecked(c) ==
    IF CurNode(c).left # NoIndex
    THEN [c EXCEPT !.queue = Append(@, CurNode(c).left), !.pc = "left"]
    ELSE EnterRight(c)

\* The left half of the loop body up to its first await (proof_tree.rs
\* 119-132).
EnterLeft(c) ==
    IF CurNode(c).left # NoIndex
    THEN LET queued == [c EXCEPT !.queue = Append(@, CurNode(c).left)]
         IN  IF CurUpdate(c).left_child = None
             THEN Fail(queued, "mismatch")
             ELSE [queued EXCEPT !.pc = "left"]
    ELSE EnterRight(c)

OutsideCross == <<subtrees, run, path_ctx, handles, proof, protocol, app, refs, fetch, task>>

\* ProofTree::new has returned: every layer was accepted by from_iter and
\* the root node of the root layer carries what fetch_root_node answered.
InitCross ==
    /\ \E layers \in CrossLayers, key \in {LeftKey, RightKey} :
       \E root_update \in Answers(key) :
          cross = [NoCross EXCEPT
                     !.layers = layers,
                     !.node_update =
                        [i \in 1..Len(layers) |->
                            [j \in 1..Len(layers[i].tree) |->
                                IF i = 1 /\ j = layers[1].root + 1
                                THEN root_update ELSE NoUpdate]],
                     !.paths = [i \in 1..Len(layers) |-> i],
                     !.pc = "next_path",
                     !.result = "running"]
    /\ subtrees = [p \in {} |-> Subtree_default]
    /\ run = NoRun
    /\ PathsInit
    /\ ProofIdle
    /\ ProtocolIdle
    /\ RefsIdle
    /\ FetchIdle
    /\ TaskIdle

\* The loop of fetch_additional_data (proof_tree.rs 222-228) takes the next
\* path and fetch_subtree queues the root of its subtree (proof_tree.rs
\* 71-77); after the last path process_command collects the node updates of
\* all proof nodes into the Proof update (protocol.rs 182-196).
NextPath ==
    /\ cross.pc = "next_path"
    /\ cross' =
          IF cross.paths = << >>
          THEN [cross EXCEPT !.result = "ok", !.pc = "done",
                             !.delivered = cross.node_update]
          ELSE [cross EXCEPT !.path = Head(cross.paths),
                             !.paths = Tail(@),
                             !.queue = <<cross.layers[Head(cross.paths)].root>>,
                             !.pc = "pop"]
    /\ UNCHANGED OutsideCross

\* queue.pop_front() and the loop body up to its first await (proof_tree.rs
\* 79-107).
PopNode ==
    /\ cross.pc = "pop"
    /\ cross' =
          IF cross.queue = << >>
          THEN [cross EXCEPT !.pc = "next_path"]
          ELSE LET popped == [cross EXCEPT !.idx = Head(cross.queue), !.queue = Tail(@)]
                   node_update == CurUpdate(popped)
               IN  IF node_update = NoUpdate
                   THEN Fail(popped, "not_fetched")
                   ELSE IF /\ node_update.root_key # None
                           /\ LayerAt(popped, Append(popped.layers[popped.path].path,
                                                     node_update.key)) # 0
                   THEN [popped EXCEPT !.pc = "own_subtree"]
                   ELSE EnterLeft(popped)
    /\ UNCHANGED OutsideCross

\* The fetch of the root of the node's own subtree has answered (proof_tree.rs
\* 107-117).
FetchOwnSubtree(ans) ==
    /\ cross.pc = "own_subtree"
    /\ ans \in Answers(CurUpdate(cross).root_key)
    /\ cross' = EnterLeft(SetSubtreeRoot(cross,
                    LayerAt(cross, Append(cross.layers[cross.path].path,
                                          CurUpdate(cross).key)),
                    ans))
    /\ UNCHANGED OutsideCross

\* The fetch of the left child has answered (proof_tree.rs 125-146).
FetchLeft(ans) ==
    /\ cross.pc = "left"
    /\ ans \in Answers(CurUpdate(cross).left_child)
    /\ LET fetched == [cross EXCEPT !.update = ans]
       IN  cross' =
              IF /\ ans # NoUpdate
                 /\ ans.root_key # None
                 /\ LayerAt(cross, Append(cross.layers[cross.path].path,
                                          CurUpdate(cross).left_child)) # 0
              THEN [fetched EXCEPT !.pc = "left_subtree"]
              ELSE EnterRight(Attach(fetched, CurNode(cross).left))
    /\ UNCHANGED OutsideCross

\* The fetch of the root of the left child's subtree has answered
\* (proof_tree.rs 147-166).
FetchLeftSubtree(ans) ==
    /\ cross.pc = "left_subtree"
    /\ ans \in Answers(cross.update.root_key)
    /\ cross' = EnterRight(Attach(
                    SetSubtreeRoot(cross,
                        LayerAt(cross, Append(cross.layers[cross.path].path,
                                              CurUpdate(cross).left_child)),
                        ans),
                    CurNode(cross).left))
    /\ UNCHANGED OutsideCross

\* The fetch of the right child has answered (proof_tree.rs 174-195).
FetchRight(ans) ==
    /\ cross.pc = "right"
    /\ ans \in Answers(CurUpdate(cross).right_child)
    /\ LET fetched == [cross EXCEPT !.update = ans]
       IN  cross' =
              IF /\ ans # NoUpdate
                 /\ ans.root_key # None
                 /\ LayerAt(cross, Append(cross.layers[cross.path].path,
                                          CurUpdate(cross).right_child)) # 0
              THEN [fetched EXCEPT !.pc = "right_subtree"]
              ELSE [Attach(fetched, CurNode(cross).right) EXCEPT !.pc = "pop"]
    /\ UNCHANGED OutsideCross

\* The fetch of the root of the right child's subtree has answered
\* (proof_tree.rs 196-215).
FetchRightSubtree(ans) ==
    /\ cross.pc = "right_subtree"
    /\ ans \in Answers(cross.update.root_key)
    /\ cross' = [Attach(
                    SetSubtreeRoot(cross,
                        LayerAt(cross, Append(cross.layers[cross.path].path,
                                              CurUpdate(cross).right_child)),
                        ans),
                    CurNode(cross).right) EXCEPT !.pc = "pop"]
    /\ UNCHANGED OutsideCross

\* A fetch_node returns Err: `.await?` returns it.
FetchFails ==
    /\ cross.pc \in {"own_subtree", "left", "left_subtree", "right", "right_subtree"}
    /\ cross' = Fail(cross, "fetch")
    /\ UNCHANGED OutsideCross

AnswerSet == NodeUpdates(LeftKey) \cup NodeUpdates(RightKey) \cup {NoUpdate}

NextCross ==
    \/ NextPath
    \/ PopNode
    \/ \E ans \in AnswerSet : FetchOwnSubtree(ans)
    \/ \E ans \in AnswerSet : FetchLeft(ans)
    \/ \E ans \in AnswerSet : FetchLeftSubtree(ans)
    \/ \E ans \in AnswerSet : FetchRight(ans)
    \/ \E ans \in AnswerSet : FetchRightSubtree(ans)
    \/ FetchFails

SpecCross == InitCross /\ [][NextCross]_vars

\* The proof nodes that carry a node update: layer i, index j - 1.
Attached_nodes(c) ==
    {ij \in UNION {{<<i, j>> : j \in 1..Len(c.layers[i].tree)} : i \in 1..Len(c.layers)} :
        c.node_update[ij[1]][ij[2]] # NoUpdate}

\* C21: a shape mismatch found at one proof node fails only that branch: the
\* node updates attached to the other proof nodes are part of the result of
\* the proof request.
SiblingsSurviveMismatch ==
    (cross.result = "err" /\ cross.error = "mismatch") =>
        \A ij \in Attached_nodes(cross) \ {<<cross.path, cross.idx + 1>>} :
            /\ ij[1] <= Len(cross.delivered)
            /\ cross.delivered[ij[1]][ij[2]] = cross.node_update[ij[1]][ij[2]]

----------------------------------------------------------------------------
\* Reference resolution: TryFrom<ElementCtx> for Element and the from_*
\* functions (src/src/fetch/proto_conversion.rs 19-239), and
\* get_absolute_path_key (src/src/tree_view/element_view/reference_view.rs
\* 225-327). Paths are the byte-segment sequences the Path handles denote.

\* grovedbg_types::Path: sequences of at most MaxRefPath segments.
RefPaths == UNION {[1..n -> Bytes] : n \in 0..MaxRefPath}

\* The variants of grovedbg_types::Reference.
ReferenceKinds ==
    {"AbsolutePathReference", "UpstreamRootHeightReference",
     "UpstreamRootHeightWithParentPathAdditionReference",
     "UpstreamFromElementHeightReference", "CousinReference",
     "RemovedCousinReference", "SiblingReference"}

\* Ok(Element::Reference { path, key, .. }) / Ok((path, key)) and Err(..).
OkRef(path, key) == [result |-> "ok", path |-> path, key |-> key]
ErrRef == [result |-> "err", path |-> << >>, key |-> None]

\* Vec::pop on the computed address: the last segment is the key.
Front(seq) == SubSeq(seq, 1, Len(seq) - 1)
Last(seq) == seq[Len(seq)]
PopKey(address) ==
    IF address = << >> THEN ErrRef ELSE OkRef(Front(address), Last(address))

\* Iterator::take(n).
Take(seq, n) == SubSeq(seq, 1, IF n < Len(seq) THEN n ELSE Len(seq))

\* What is left in a slice iterator after nth_back(n): nth_back consumes
\* n + 1 items from the back, or all of them when there are fewer.
AfterNthBack(seq, n) == SubSeq(seq, 1, IF Len(seq) > n THEN Len(seq) - (n + 1) ELSE 0)

\* from_absolute_path_reference (proto_conversion.rs 104-118).
from_absolute_path_reference(path) == PopKey(path)

\* from_upstream_root_height_reference (proto_conversion.rs 120-141).
from_upstream_root_height_reference(path, n_keep, path_append) ==
    PopKey(Take(path, n_keep) \o path_append)

\* from_upstream_root_height_with_parent_path_addition_reference
\* (proto_conversion.rs 143-166).
from_upstream_root_height_with_parent_path_addition_reference(path, n_keep, path_append) ==
    IF path = << >> THEN ErrRef
    ELSE PopKey(Take(Front(path), n_keep) \o path_append \o <<Last(path)>>)

\* from_upstream_element_height_reference (proto_conversion.rs 168-187).
from_upstream_element_height_reference(path, n_remove, path_append) ==
    PopKey(AfterNthBack(path, n_remove) \o path_append)

\* from_cousin_reference (proto_conversion.rs 189-206).
from_cousin_reference(path, key, swap_parent) ==
    IF path = << >> THEN ErrRef
    ELSE OkRef(Append(Front(path), swap_parent), key)

\* from_removed_cousin_reference (proto_conversion.rs 208-225); swap_parent
\* is a vector of segments here.
from_removed_cousin_reference(path, key, swap_parent) ==
    IF path = << >> THEN ErrRef
    ELSE OkRef(Front(path) \o swap_parent, key)

\* from_sibling_reference (proto_conversion.rs 227-239).
from_sibling_reference(path, sibling_key) == OkRef(path, sibling_key)

\* TryFrom<ElementCtx> for Element, the Reference arms (proto_conversion.rs
\* 50-100); path_append stands for the path of an absolute reference and the
\* swap_parent segments of a removed cousin as well.
Element_try_from(r) ==
    CASE r.kind = "AbsolutePathReference" ->
            from_absolute_path_reference(r.path_append)
      [] r.kind = "UpstreamRootHeightReference" ->
            from_upstream_root_height_reference(r.path, r.n, r.path_append)
      [] r.kind = "UpstreamRootHeightWithParentPathAdditionReference" ->
            from_upstream_root_height_with_parent_path_addition_reference(
                r.path, r.n, r.path_append)
      [] r.kind = "UpstreamFromElementHeightReference" ->
            from_upstream_element_height_reference(r.path, r.n, r.path_append)
      [] r.kind = "CousinReference" ->
            from_cousin_reference(r.path, r.key, r.swap_parent)
      [] r.kind = "RemovedCousinReference" ->
            from_removed_cousin_reference(r.path, r.key, r.path_append)
      [] r.kind = "SiblingReference" ->
            from_sibling_reference(r.path, r.swap_parent)

\* shrinked_path.parent_with_key() (path_ctx.rs 183-195) mapped to the
\* Result of get_absolute_path_key.
ParentWithKey(path) == IF path = << >> THEN ErrRef ELSE OkRef(Front(path), Last(path))

\* get_absolute_path_key (reference_view.rs 225-327).
get_absolute_path_key(r) ==
    CASE r.kind = "AbsolutePathReference" ->
            IF r.path_append = << >> THEN ErrRef
            ELSE OkRef(Front(r.path_append), Last(r.path_append))
      [] r.kind = "UpstreamRootHeightReference" ->
            IF r.n > Len(r.path) THEN ErrRef
            ELSE ParentWithKey(SubSeq(r.path, 1, r.n) \o r.path_append)
      [] r.kind = "UpstreamRootHeightWithParentPathAdditionReference" ->
            IF r.n > Len(r.path) THEN ErrRef
            ELSE ParentWithKey(SubSeq(r.path, 1, r.n) \o r.path_append
                               \o (IF r.path = << >> THEN << >> ELSE <<Last(r.path)>>))
      [] r.kind = "UpstreamFromElementHeightReference" ->
            IF r.n > Len(r.path) THEN ErrRef
            ELSE ParentWithKey(SubSeq(r.path, 1, Len(r.path) - r.n) \o r.path_append)
      [] r.kind = "CousinReference" ->
            IF r.path = << >> THEN ErrRef
            ELSE OkRef(Append(Front(r.path), r.swap_parent), r.key)
      [] r.kind = "RemovedCousinReference" ->
            IF r.path = << >> THEN ErrRef
            ELSE OkRef(Front(r.path) \o r.path_append, r.key)
      [] r.kind = "SiblingReference" ->
            OkRef(r.path, r.swap_parent)

OutsideRefs == <<subtrees, run, path_ctx, handles, proof, protocol, app, cross, fetch, task>>

\* A node with a reference element has arrived: any kind of reference at
\* any path and key.
InitRefs ==
    /\ \E kind \in ReferenceKinds, path \in RefPaths, key \in Bytes, n \in 0..MaxRefN,
          path_append \in RefPaths, swap_parent \in Bytes :
          refs = [NoRefs EXCEPT !.kind = kind, !.path = path, !.key = key, !.n = n,
                                !.path_append = path_append, !.swap_parent = swap_parent]
    /\ subtrees = [p \in {} |-> Subtree_default]
    /\ run = NoRun
    /\ PathsInit
    /\ ProofIdle
    /\ ProtocolIdle
    /\ CrossIdle
    /\ FetchIdle
    /\ TaskIdle

\* from_update converts the node (proto_conversion.rs 249-268).
Convert ==
    /\ refs.kind # "none"
    /\ refs.conv = NoResult
    /\ refs' = [refs EXCEPT !.conv = Element_try_from(refs)]
    /\ UNCHANGED OutsideRefs

\* The reference view resolves the reference it draws (reference_view.rs
\* 225-327).
View ==
    /\ refs.kind # "none"
    /\ refs.view = NoResult
    /\ refs' = [refs EXCEPT !.view = get_absolute_path_key(refs)]
    /\ UNCHANGED OutsideRefs

NextRefs == Convert \/ View

SpecRefs == InitRefs /\ [][NextRefs]_vars

\* The address a reference denotes, for a node at path with the key key:
\* the kept or shortened current path followed by what the payload appends;
\* empty as well when the scheme needs a parent segment the path does not have.
ReferencedAddress(r) ==
    CASE r.kind = "AbsolutePathReference" -> r.path_append
      [] r.kind = "UpstreamRootHeightReference" -> Take(r.path, r.n) \o r.path_append
      [] r.kind = "UpstreamRootHeightWithParentPathAdditionReference" ->
            IF r.path = << >> THEN << >>
            ELSE Take(r.path, r.n) \o r.path_append \o <<Last(r.path)>>
      [] r.kind = "UpstreamFromElementHeightReference" ->
            SubSeq(r.path, 1, IF r.n < Len(r.path) THEN Len(r.path) - r.n ELSE 0)
                \o r.path_append
      [] r.kind = "CousinReference" ->
            IF r.path = << >> THEN << >>
            ELSE Front(r.path) \o <<r.swap_parent, r.key>>
      [] r.kind = "RemovedCousinReference" ->
            IF r.path = << >> THEN << >>
            ELSE Front(r.path) \o r.path_append \o <<r.key>>
      [] r.kind = "SiblingReference" -> Append(r.path, r.swap_parent)

\* C23: the conversion of a reference fails with ReferenceWithoutKey exactly
\* when the address the reference denotes is empty, and yields a (path, key)
\* pair otherwise, for every scheme, path, key and payload.
ReferenceFailsIffAddressEmpty ==
    refs.conv # NoResult =>
        /\ (refs.conv.result = "err") <=> (ReferencedAddress(refs) = << >>)
        /\ refs.conv.result = "ok" => refs.conv.key # None

\* C29: for an UpstreamFromElementHeightReference with n_remove up to the
\* length of the current path both resolvers return the same: the current
\* path without its last n_remove segments, followed by path_append, split
\* into the key (last segment) and the path (the rest).
ElementHeightResolversAgree ==
    (/\ refs.kind = "UpstreamFromElementHeightReference"
     /\ refs.n <= Len(refs.path)
     /\ refs.conv # NoResult
     /\ refs.view # NoResult) =>
        /\ refs.conv = refs.view
        /\ refs.view = PopKey(SubSeq(refs.path, 1, Len(refs.path) - refs.n)
                              \o refs.path_append)

----------------------------------------------------------------------------
\* The fetch task: process_message and process_messages (src/src/fetch.rs
\* 47-194), from_update (src/src/fetch/proto_conversion.rs 249-268), and the
\* drawing thread taking the Tree lock (src/src/main.rs 135-139).

\* A reference element whose computed address is empty: its conversion fails
\* with ReferenceWithoutKey.
BadReference == [kind |-> "BadReference", root_key |-> None]

\* Some(NodeUpdate) answered for key: any children, an item or a reference
\* that cannot be resolved.
FetchedUpdates(key) ==
    [key : {key}, left_child : TreeKeys \cup {None}, right_child : TreeKeys \cup {None},
     element : {Item, BadReference}]

\* from_update (proto_conversion.rs 249-268): whether the element converts,
\* and the Node.
from_update_ok(value) == value.element # BadReference
from_update_node(value) ==
    [left_child |-> value.left_child, right_child |-> value.right_child,
     element |-> value.element]

\* Message (fetch.rs 17-23); FetchNode and FetchBranch work on the root
\* subtree, UnloadSubtree unloads it.
Messages ==
    {[kind |-> "FetchRoot", key |-> None], [kind |-> "UnloadSubtree", key |-> None]}
    \cup [kind : {"FetchNode", "FetchBranch"}, key : TreeKeys]

\* process_message returns: the MutexGuard and the locals are dropped.
Return(f, outcome) ==
    [f EXCEPT !.pc = "idle", !.lock = "free", !.outcome = outcome,
              !.root_node = NoNodeUpdate, !.queue = << >>, !.to_insert = << >>]

OutsideFetch == <<run, path_ctx, handles, proof, protocol, app, cross, refs, task>>

\* The application has started the fetch task on an empty Tree.
InitFetch ==
    /\ fetch = NoFetch
    /\ subtrees = [p \in {} |-> Subtree_default]
    /\ run = NoRun
    /\ PathsInit
    /\ ProofIdle
    /\ ProtocolIdle
    /\ CrossIdle
    /\ RefsIdle
    /\ TaskIdle

\* receiver.recv() returns a message (fetch.rs 189); FetchBranch queues its
\* key (fetch.rs 108-111).
Receive(message) ==
    /\ fetch.pc = "idle"
    /\ fetch.handled < MaxMessages
    /\ fetch' = [fetch EXCEPT
          !.message = message,
          !.pc = CASE message.kind = "FetchRoot" -> "root_fetch"
                   [] message.kind = "FetchNode" -> "node_fetch"
                   [] message.kind = "FetchBranch" -> "branch_fetch"
                   [] message.kind = "UnloadSubtree" -> "unload",
          !.queue = IF message.kind = "FetchBranch" THEN <<message.key>> ELSE << >>,
          !.outcome = "none",
          !.before = subtrees,
          !.fetched = << >>,
          !.handled = @ + 1]
    /\ UNCHANGED <<subtrees, OutsideFetch>>

\* FetchRoot: the request has answered (fetch.rs 56-66); with a root node the
\* task takes the lock (fetch.rs 68).
RootFetched(failed, ans) ==
    /\ fetch.pc = "root_fetch"
    /\ fetch' = IF failed THEN Return(fetch, "err")
                ELSE IF ans = NoNodeUpdate THEN Return(fetch, "ok")
                ELSE [fetch EXCEPT !.root_node = ans, !.lock = "fetch", !.pc = "root_set_root"]
    /\ UNCHANGED <<subtrees, OutsideFetch>>

\* lock.set_root(root_node.key.clone()) (fetch.rs 69).
RootSetRoot ==
    /\ fetch.pc = "root_set_root"
    /\ subtrees' = Tree_set_root(subtrees, fetch.root_node.key)
    /\ fetch' = [fetch EXCEPT !.pc = "root_insert"]
    /\ UNCHANGED OutsideFetch

\* lock.insert(.., from_update(path_ctx, root_node)?) (fetch.rs 70-74): the
\* argument is converted first and `?` returns its error before the insert.
RootInsert ==
    /\ fetch.pc = "root_insert"
    /\ IF from_update_ok(fetch.root_node)
       THEN /\ subtrees' = Tree_insert(subtrees, RootPath, fetch.root_node.key,
                                       from_update_node(fetch.root_node))
            /\ fetch' = Return(fetch, "ok")
       ELSE /\ subtrees' = subtrees
            /\ fetch' = Return(fetch, "err")
    /\ UNCHANGED OutsideFetch

\* FetchNode: the request has answered (fetch.rs 78-91); with a node the task
\* takes the lock (fetch.rs 92).
NodeFetched(failed, ans) ==
    /\ fetch.pc = "node_fetch"
    /\ fetch' = IF failed THEN Return(fetch, "err")
                ELSE IF ans = NoNodeUpdate THEN Return(fetch, "ok")
                ELSE [fetch EXCEPT !.root_node = ans, !.lock = "fetch", !.pc = "node_insert"]
    /\ UNCHANGED <<subtrees, OutsideFetch>>

\* lock.insert(parent_subtree_path, key, from_update(..)?) (fetch.rs 93-98).
NodeInsert ==
    /\ fetch.pc = "node_insert"
    /\ IF from_update_ok(fetch.root_node)
       THEN /\ subtrees' = Tree_insert(subtrees, RootPath, fetch.message.key,
                                       from_update_node(fetch.root_node))
            /\ fetch' = Return(fetch, "ok")
       ELSE /\ subtrees' = subtrees
            /\ fetch' = Return(fetch, "err")
    /\ UNCHANGED OutsideFetch

\* FetchBranch: one turn of the loop with its request answered (fetch.rs
\* 113-145), the limit being FetchLimit::Count(MaxBranch): a failed request
\* or None goes on with the queue, a node that does not convert returns the
\* error, any other node is queued for insertion with its children queued
\* for fetching.
BranchFetched(failed, ans) ==
    /\ fetch.pc = "branch_fetch"
    /\ fetch.queue # << >>
    /\ Len(fetch.to_insert) < MaxBranch
    /\ ans \in FetchedUpdates(Head(fetch.queue)) \cup {NoNodeUpdate}
    /\ LET node_key == Head(fetch.queue)
           popped == [fetch EXCEPT !.queue = Tail(@)]
           children == (IF ans.left_child # None THEN <<ans.left_child>> ELSE << >>)
                       \o (IF ans.right_child # None THEN <<ans.right_child>> ELSE << >>)
       IN  fetch' =
              IF failed \/ ans = NoNodeUpdate THEN popped
              ELSE IF ~from_update_ok(ans)
              THEN Return([popped EXCEPT !.fetched = Append(@, ans)], "err")
              ELSE [popped EXCEPT !.queue = @ \o children,
                                  !.to_insert = Append(@, <<node_key, from_update_node(ans)>>),
                                  !.fetched = Append(@, ans)]
    /\ UNCHANGED <<subtrees, OutsideFetch>>

\* The loop ends, with the queue empty or at the limit, and the task takes
\* the lock (fetch.rs 113-118, 147).
BranchLock ==
    /\ fetch.pc = "branch_fetch"
    /\ fetch.queue = << >> \/ Len(fetch.to_insert) >= MaxBranch
    /\ fetch' = [fetch EXCEPT !.lock = "fetch", !.pc = "branch_insert", !.queue = << >>]
    /\ UNCHANGED <<subtrees, OutsideFetch>>

\* One turn of to_insert.into_iter().for_each(..) (fetch.rs 148-150); after
\* the last one process_message returns.
BranchInsert ==
    /\ fetch.pc = "branch_insert"
    /\ IF fetch.to_insert = << >>
       THEN /\ subtrees' = subtrees
            /\ fetch' = Return(fetch, "ok")
       ELSE /\ subtrees' = Tree_insert(subtrees, RootPath, Head(fetch.to_insert)[1],
                                       Head(fetch.to_insert)[2])
            /\ fetch' = [fetch EXCEPT !.to_insert = Tail(@)]
    /\ UNCHANGED OutsideFetch

\* UnloadSubtree (fetch.rs 152-155).
Unload ==
    /\ fetch.pc = "unload"
    /\ subtrees' = Tree_clear_subtree(subtrees, RootPath)
    /\ fetch' = Return(fetch, "ok")
    /\ UNCHANGED OutsideFetch

\* The drawing thread takes the lock, draws the Tree and drops the lock
\* (main.rs 135-139).
Draw ==
    /\ fetch.lock = "free"
    /\ fetch.drawn # subtrees
    /\ fetch' = [fetch EXCEPT !.drawn = subtrees]
    /\ UNCHANGED <<subtrees, OutsideFetch>>

RootAnswers == UNION {FetchedUpdates(k) : k \in TreeKeys} \cup {NoNodeUpdate}

NextFetch ==
    \/ \E message \in Messages : Receive(message)
    \/ \E failed \in BOOLEAN, ans \in RootAnswers : RootFetched(failed, ans)
    \/ RootSetRoot
    \/ RootInsert
    \/ \E failed \in BOOLEAN, ans \in RootAnswers : NodeFetched(failed, ans)
    \/ NodeInsert
    \/ \E failed \in BOOLEAN, ans \in RootAnswers : BranchFetched(failed, ans)
    \/ BranchLock
    \/ BranchInsert
    \/ Unload
    \/ Draw

SpecFetch == InitFetch /\ [][NextFetch]_vars

\* C24: a node of a FetchBranch batch whose reference does not resolve is
\* skipped alone: the nodes of the batch that were fetched and converted are
\* in the tree once the message has been handled.
BadNodeSkippedAlone ==
    (fetch.pc = "idle" /\ fetch.message.kind = "FetchBranch") =>
        \A i \in 1..Len(fetch.fetched) :
            from_update_ok(fetch.fetched[i]) =>
                /\ RootPath \in DOMAIN subtrees
                /\ fetch.fetched[i].key \in DOMAIN subtrees[RootPath].nodes

\* C25: the drawing thread sees none or all of a message's changes: while a
\* message is being handled the Tree it can lock is the Tree from before the
\* message, and so is the Tree after a message that ended in an error.
MessagesAreAtomic ==
    /\ (fetch.lock = "free" /\ fetch.pc # "idle") => subtrees = fetch.before
    /\ (fetch.pc = "idle" /\ fetch.outcome = "err") => subtrees = fetch.before

----------------------------------------------------------------------------
\* Reading a Path (src/src/model/path_display.rs 41-47, 139-166, 260-316).
\* An Option is the empty sequence for None and <<x>> for Some(x).

\* Vec::reverse.
Reverse(seq) == [i \in 1..Len(seq) |-> seq[Len(seq) + 1 - i]]

\* The while loop of Path::to_vec (path_display.rs 262-267): the bytes of the
\* segments from current_id up to the root, leaf first.
RECURSIVE to_vec_loop(_, _, _)
to_vec_loop(ctx, current_id, path) ==
    IF current_id = None THEN path
    ELSE to_vec_loop(ctx, ctx.slab[current_id].parent_slab_id,
                     Append(path, ctx.slab[current_id].bytes))

\* Path::to_vec without path.reverse().
Path_to_vec_leaf_first(ctx, head) == to_vec_loop(ctx, head, << >>)

\* Path::to_vec (path_display.rs 260-271).
Path_to_vec(ctx, head) == Reverse(to_vec_loop(ctx, head, << >>))

\* Path::level (path_display.rs 139-141).
Path_level(ctx, head) == IF head = None THEN 0 ELSE ctx.slab[head].level

\* Path::parent (path_display.rs 143-152): the head_slab_id of the parent.
Path_parent_handle(ctx, head) ==
    IF head = None THEN << >> ELSE <<ctx.slab[head].parent_slab_id>>

\* Path::parent_with_key (path_display.rs 154-166).
Path_parent_with_key(ctx, head) ==
    IF head = None THEN << >>
    ELSE <<[parent |-> ctx.slab[head].parent_slab_id, key |-> ctx.slab[head].bytes]>>

\* PathCtx::add_path (path_display.rs 41-47) from current_path on: the handle
\* returned and the PathCtx afterwards.
RECURSIVE add_path_loop(_, _, _)
add_path_loop(ctx, current_path, path) ==
    IF path = << >> THEN [head_slab_id |-> current_path, ctx |-> ctx]
    ELSE LET res == Path_child(ctx, current_path, Head(path))
         IN  add_path_loop(res.ctx, res.head_slab_id, Tail(path))

PathCtx_add_path(ctx, path) == add_path_loop(ctx, None, path)

\* The byte sequences add_path is called with.
AddedPaths == UNION {[1..n -> Bytes] : n \in 0..MaxAddPath}

\* C26: a handle denotes the byte sequence it was built from, whatever
\* child() calls came later: to_vec gives that sequence root first, level is
\* its length, parent is None for the root only, parent_with_key of
\* child(p, k) is (p, k), and to_vec(add_path(s)) = s.
PathDenotesItsBytes ==
    /\ \A h \in handles :
          /\ Path_to_vec(path_ctx, h.head_slab_id) = h.bytes
          /\ Path_level(path_ctx, h.head_slab_id) = Len(h.bytes)
          /\ (Path_parent_handle(path_ctx, h.head_slab_id) = << >>) <=> (h = RootHandle)
          /\ \A key \in Bytes :
                LET res == Path_child(path_ctx, h.head_slab_id, key)
                IN  Path_parent_with_key(res.ctx, res.head_slab_id) =
                        <<[parent |-> h.head_slab_id, key |-> key]>>
    /\ \A path \in AddedPaths :
          LET res == PathCtx_add_path(path_ctx, path)
          IN  /\ Path_to_vec(res.ctx, res.head_slab_id) = path
              /\ Path_level(res.ctx, res.head_slab_id) = Len(path)

\* A handle of two different bytes is still held after a sibling of its
\* parent and a child of its own were interned.
HandleOutlivedLaterChildren ==
    \E h \in handles, c \in handles, d \in handles :
        /\ Len(h.bytes) = 2 /\ h.bytes[1] # h.bytes[2]
        /\ Len(c.bytes) = 1 /\ c.head_slab_id > h.head_slab_id
        /\ Len(d.bytes) = 3 /\ SubSeq(d.bytes, 1, 2) = h.bytes

\* The while loop of for_each_descendant_recursively (path_display.rs
\* 305-315): descendant_paths is the queue, calls the paths f was called
\* with so far.  turns counts the turns left before the walk is given up as
\* not terminating; done tells that the queue ran empty.
RECURSIVE descendants_loop(_, _, _, _)
descendants_loop(ctx, descendant_paths, calls, turns) ==
    IF descendant_paths = << >> THEN [calls |-> calls, done |-> TRUE]
    ELSE IF turns = 0 THEN [calls |-> calls, done |-> FALSE]
    ELSE LET desc_path == Head(descendant_paths)
         IN  descendants_loop(ctx,
                              Tail(descendant_paths) \o ctx.slab[desc_path].children_slab_ids,
                              Append(calls, desc_path), turns - 1)

\* The walk is cut off after as many turns as two visits of every segment.
MaxTurns(ctx) == 2 * Len(ctx.slab) + 1

\* for_each_descendant_recursively with the path itself queued first.
for_each_descendant_recursively_from_self(ctx, head) ==
    descendants_loop(ctx, IF head = None THEN ChildrenVec(ctx, head) ELSE <<head>>,
                     << >>, MaxTurns(ctx))

\* Path::for_each_descendant_recursively (path_display.rs 289-316): the heads
\* of the paths the callback is called with, in order.
for_each_descendant_recursively(ctx, head) ==
    descendants_loop(ctx, ChildrenVec(ctx, head), << >>, MaxTurns(ctx))

\* Whether seq starts with prefix and is longer.
StrictlyBelow(seq, prefix) ==
    Len(seq) > Len(prefix) /\ SubSeq(seq, 1, Len(prefix)) = prefix

\* C27: for_each_descendant_recursively(p) terminates and calls the callback
\* exactly once for every interned path strictly below p, for no other path
\* and not for p, in non-decreasing level order.
DescendantsVisitedOnce ==
    \A h \in handles :
        LET walk == for_each_descendant_recursively(path_ctx, h.head_slab_id)
            calls == walk.calls
        IN  /\ walk.done
            /\ \A id \in 1..Len(path_ctx.slab) :
                  Cardinality({i \in 1..Len(calls) : calls[i] = id}) =
                      IF StrictlyBelow(Path_to_vec(path_ctx, id), h.bytes) THEN 1 ELSE 0
            /\ \A i \in 1..Len(calls) : calls[i] # h.head_slab_id
            /\ \A i \in 1..Len(calls), j \in 1..Len(calls) :
                  i < j => path_ctx.slab[calls[i]].level <= path_ctx.slab[calls[j]].level

\* The walk from a path with a child and a grandchild, beside a sibling of
\* the path, was made of two calls.
WalkedTwoLevels ==
    \E h \in handles :
        /\ Len(h.bytes) = 1
        /\ Len(for_each_descendant_recursively(path_ctx, h.head_slab_id).calls) = 2
        /\ \E g \in handles : Len(g.bytes) = 3 /\ SubSeq(g.bytes, 1, 1) = h.bytes
        /\ \E o \in handles : Len(o.bytes) = 1 /\ o.bytes # h.bytes

----------------------------------------------------------------------------
\* The shape of the tree ProofSubtree::from_iter builds
\* (src/src/protocol/proof_tree.rs 251-318).

\* The op sequences of up to MaxShapeOps ops whose pushed nodes all carry
\* the same proof value: the links do not depend on the values.
ShapeProofs ==
    UNION {[1..n -> {o \in MerkProofOp : o.x \in {0, 1}}] : n \in 0..MaxShapeOps}

\* SpecProofShapes: from_iter is called with one of these sequences and runs
\* its loop op by op.
InitProofShapes ==
    /\ \E ops \in ShapeProofs :
          proof = [NoProof EXCEPT !.input = ops, !.iter = ops, !.result = "running"]
    /\ subtrees = [p \in {} |-> Subtree_default]
    /\ run = NoRun
    /\ PathsInit
    /\ ProtocolIdle
    /\ RestIdle

SpecProofShapes == InitProofShapes /\ [][NextProof]_vars

\* The indices of tree, and the links (parent index, child index) set in it.
ProofIndices(tree) == 0..(Len(tree) - 1)
ProofLinks(tree) ==
    {<<i, tree[i + 1].left>> : i \in {j \in ProofIndices(tree) : tree[j + 1].left # NoIndex}}
    \cup {<<i, tree[i + 1].right>> : i \in {j \in ProofIndices(tree) : tree[j + 1].right # NoIndex}}

\* The indices reached from the set seen by following links.
RECURSIVE ProofReach(_, _)
ProofReach(tree, seen) ==
    LET more == seen \cup {l[2] : l \in {k \in ProofLinks(tree) : k[1] \in seen}}
    IN  IF more = seen THEN seen ELSE ProofReach(tree, more)

\* C28: when from_iter succeeds the links form one binary tree over all the
\* nodes of the vector: root is no node's child, every other node is the
\* child held in exactly one link slot, and every node is reached from root.
FromIterBuildsOneTree ==
    proof.result = "ok" =>
        LET tree == proof.tree
            slots(c) ==
                {<<i, side>> \in ProofIndices(tree) \X {"left", "right"} :
                    IF side = "left" THEN tree[i + 1].left = c ELSE tree[i + 1].right = c}
        IN  /\ slots(proof.root) = {}
            /\ \A c \in ProofIndices(tree) \ {proof.root} : Cardinality(slots(c)) = 1
            /\ ProofReach(tree, {proof.root}) = ProofIndices(tree)

----------------------------------------------------------------------------
\* The loop of start_grovedbg_protocol with its bounded channels
\* (src/src/protocol.rs 27-54), the CommandBus that feeds it (src/src/bus.rs
\* 37-62) and the application draining the updates (src/src/lib.rs 392-421).

\* mpsc::channel(10) (protocol.rs 27).
FeedbackCapacity == 10

OutsideTask == <<subtrees, run, path_ctx, handles, proof, protocol, app, cross, refs, fetch>>

\* The application has been constructed: bus.new_session() (lib.rs 77) has
\* sent the first command and the task waits in select!.
InitTask ==
    /\ task = [NoTask EXCEPT !.pc = "select", !.app_pc = "ui",
                             !.commands = <<NewSession(NoSession)>>]
    /\ subtrees = [p \in {} |-> Subtree_default]
    /\ run = NoRun
    /\ PathsInit
    /\ ProofIdle
    /\ ProtocolIdle
    /\ CrossIdle
    /\ RefsIdle
    /\ FetchIdle

\* select! takes the commands_receiver branch (protocol.rs 29-30).
SelectCommand ==
    /\ task.pc = "select"
    /\ task.commands # << >>
    /\ task' = [task EXCEPT !.cmd = Head(task.commands), !.commands = Tail(@),
                            !.pc = "process"]
    /\ UNCHANGED OutsideTask

\* select! takes the feedback_recv branch (protocol.rs 29, 31).
SelectFeedback ==
    /\ task.pc = "select"
    /\ task.feedback # << >>
    /\ task' = [task EXCEPT !.cmd = Head(task.feedback), !.feedback = Tail(@),
                            !.pc = "process"]
    /\ UNCHANGED OutsideTask

\* process_command(..).await returns (protocol.rs 33-48, 132-243).  A Fetch
\* with a session the endpoint does not accept fails with 401 and the task
\* goes to send NewSession to itself; any request may fail otherwise, which
\* is logged and the loop continues; with Ok the task goes to send the
\* update.  new_session answers with a session not issued before.
ProcessCommand(failed) ==
    /\ task.pc = "process"
    /\ task' =
          IF failed THEN [task EXCEPT !.pc = "select", !.cmd = NoCommand]
          ELSE IF task.cmd.kind = "NewSession"
          THEN IF task.issued < MaxIssued
               THEN [task EXCEPT !.issued = @ + 1,
                                 !.valid = (@ \ {task.cmd.session}) \cup {task.issued + 1},
                                 !.cmd = Update_Session(task.issued + 1),
                                 !.pc = "send_update"]
               ELSE [task EXCEPT !.pc = "select", !.cmd = NoCommand]
          ELSE IF task.cmd.session \in task.valid
          THEN [task EXCEPT !.cmd = Update_RootUpdate(0), !.pc = "send_update"]
          ELSE [task EXCEPT !.cmd = NoCommand, !.pc = "send_feedback"]
    /\ UNCHANGED OutsideTask

\* feedback_send.send(NewSession { old_session: None }).await completes
\* (protocol.rs 39-42): the channel has room.
SendFeedback ==
    /\ task.pc = "send_feedback"
    /\ Len(task.feedback) < FeedbackCapacity
    /\ task' = [task EXCEPT !.feedback = Append(@, NewSession(NoSession)), !.pc = "select"]
    /\ UNCHANGED OutsideTask

\* updates_sender.send(updates).await completes (protocol.rs 50).
SendUpdate ==
    /\ task.pc = "send_update"
    /\ Len(task.updates) < UpdatesCapacity
    /\ task' = [task EXCEPT !.updates = Append(@, task.cmd), !.cmd = NoCommand,
                            !.pc = "select"]
    /\ UNCHANGED OutsideTask

\* The application takes an update (lib.rs 392-421): with Session it sets
\* the session of the bus and goes to send FetchRoot.
AppReceive ==
    /\ task.app_pc = "ui"
    /\ task.updates # << >>
    /\ task' = IF Head(task.updates).kind = "Session"
               THEN [task EXCEPT !.updates = Tail(@),
                                 !.session = Head(task.updates).session,
                                 !.app_pc = "fetch_root"]
               ELSE [task EXCEPT !.updates = Tail(@)]
    /\ UNCHANGED OutsideTask

\* bus.fetch_command(FetchRoot) after a Session update (lib.rs 416, bus.rs
\* 50-58): blocking_send returns when the commands channel has room.
AppFetchRoot ==
    /\ task.app_pc = "fetch_root"
    /\ Len(task.commands) < CommandsCapacity
    /\ task' = [task EXCEPT !.commands = Append(@, Fetch(task.session, "FetchRoot")),
                            !.app_pc = "ui"]
    /\ UNCHANGED OutsideTask

\* The user causes a fetch (lib.rs 456, element_view.rs 120):
\* bus.fetch_command (bus.rs 50-62) sends it when the bus has a session.
AppFetch ==
    /\ task.app_pc = "ui"
    /\ task.session # NoSession
    /\ task.fetches < MaxFetches
    /\ Len(task.commands) < CommandsCapacity
    /\ task' = [task EXCEPT !.commands = Append(@, Fetch(task.session, "FetchNode")),
                            !.fetches = @ + 1]
    /\ UNCHANGED OutsideTask

\* The GroveDB endpoint forgets its sessions (it was restarted, or they
\* timed out).
Expire ==
    /\ task.expiries < MaxExpiries
    /\ task.valid # {}
    /\ task' = [task EXCEPT !.valid = {}, !.expiries = @ + 1]
    /\ UNCHANGED OutsideTask

NextTask ==
    \/ SelectCommand
    \/ SelectFeedback
    \/ \E failed \in BOOLEAN : ProcessCommand(failed)
    \/ SendFeedback
    \/ SendUpdate
    \/ AppReceive
    \/ AppFetchRoot
    \/ AppFetch
    \/ Expire

SpecTask == InitTask /\ [][NextTask]_vars

\* C30: the task never waits in feedback_send.send() on a full feedback
\* channel.  The task is the only receiver of that channel and receives only
\* in select!, so a task in this state waits forever: no NewSession queued
\* is processed and no command is received any more.
TaskNeverBlocksOnFeedback ==
    ~(task.pc = "send_feedback" /\ Len(task.feedback) = FeedbackCapacity)

====
